---- MODULE Spec2Model ----
\* PAXG/XAUT grid spread arbitrage strategy (paxg_xaut_grid_strategy.py) as a
\* state machine.  The strategy object's fields are the variables; every
\* callback (on_quote_tick, the order callbacks, the position callbacks) is one
\* action.  The order cache, the position cache and the clock belong to the
\* host runtime; they are the environment part of the state.
\*
\* Units: prices are integers, grid levels and spreads are in 1e-4 (0.0010 is
\* 10), notionals are in USDT, one clock unit is SubRes clock quanta (the clock
\* is read in quanta, the way timestamp_ns is read in nanoseconds).
\*
\* The clock is the host's.  Two readings taken at one event time may be equal
\* (a test clock, a coarse clock) or the second one later (a live clock); each
\* callback that stamps takes either as its input.
EXTENDS Integers, Sequences, FiniteSets, TLC

\* ---------------------------------------------------------------- bounds
\* Orders the venue accepts in one run (order ids are 1..MaxOrders).
MaxOrders == 4
\* Clock units the run lasts after on_start.
MaxElapsed == 2
\* Orders the venue accepts in a run of GridSpec.
GridMaxOrders == 8

\* ---------------------------------------------------------- configuration
\* PaxgXautGridConfig.grid_levels, three levels: 0.0010, 0.0020, 0.0030.
GridLevels == <<10, 20, 30>>
\* 1.0 as a spread, in the unit of GridLevels.
SpreadScale == 10000
\* PaxgXautGridConfig.base_notional_per_level
BaseNotionalPerLevel == 100
\* PaxgXautGridConfig.position_weights, in percent; no level is listed, so
\* every level takes the default weight 1.0.
PositionWeights == [l \in {} |-> 100]
\* PaxgXautGridConfig.max_total_notional
MaxTotalNotional == 500
\* PaxgXautGridConfig.extreme_spread_stop (0.0150)
ExtremeSpreadStop == 150
\* PaxgXautGridConfig.order_timeout_sec, in clock units
OrderTimeoutSec == 1
\* PaxgXautGridConfig.startup_delay_sec, in clock units
StartupDelaySec == 1
\* PaxgXautGridStrategy._reconciliation_interval_ns, in clock units
ReconciliationInterval == 1
\* the drift threshold of _reconcile_positions (100 USDT)
DriftThreshold == 100
\* the values initial_notional_override takes in the runs explored
OverrideValues == {0, 250}

\* ------------------------------------------------------------ environment
\* Clock quanta per clock unit: more than the stamps taken in one clock unit.
SubRes == MaxOrders + 2
\* The readings the clock can show when on_start runs (a wall clock is far
\* beyond one reconciliation interval).
StartClocks == {ReconciliationInterval}
\* Quotes (bid, ask) the feed delivers: spreads 0.0008, 0.0025 and 0.02.
PaxgQuotes == {<<10007, 10009>>, <<10024, 10026>>, <<10199, 10201>>}
XautQuotes == {<<9999, 10001>>}

\* Python's None (an absent quote, order id or position id).
None == 0
\* the placeholder position ids of _sync_existing_positions
MANUAL_OVERRIDE == -1
DETECTED == -2
\* portfolio.net_exposure answering None (a net exposure is never negative)
NoExposure == -1

\* ---------------------------------------------------------------- helpers
Put(f, k, v) == [x \in (DOMAIN f) \cup {k} |-> IF x = k THEN v ELSE f[x]]
Del(f, k) == [x \in (DOMAIN f) \ {k} |-> f[x]]
Abs(x) == IF x < 0 THEN -x ELSE x
\* a deduction without the floor at zero
Unfloored(x) == x
Max0(x) == IF x < 0 THEN 0 ELSE x
EmptyMap == [x \in {} |-> 0]

LevelSet == {GridLevels[i] : i \in 1..Len(GridLevels)}
\* sorted(self.config.grid_levels)
RECURSIVE SortedSeq(_)
SortedSeq(s) ==
    IF s = {} THEN <<>>
    ELSE LET m == CHOOSE x \in s : \A y \in s : x <= y
         IN <<m>> \o SortedSeq(s \ {m})
LevelsSorted == SortedSeq(LevelSet)

VARIABLES
    now,                  \* the clock, in clock units
    start_time,           \* _start_time_ns, in clock units
    paxg_bid, paxg_ask, xaut_bid, xaut_ask,   \* latest quotes, None at start
    grid_state,           \* level -> [paxg_pos_id, xaut_pos_id]
    working_orders,       \* order id -> <<level, leg>>
    paired_orders,        \* key (submit stamp) -> PairedOrderTracker
    paired_close_orders,  \* key (submit stamp) -> PairedCloseTracker
    total_notional,       \* confirmed notional
    pending_notional,     \* in-flight notional
    positions_synced,     \* _positions_synced
    last_reconciliation,  \* _last_reconciliation_ns, in clock quanta
    initial_notional_override,  \* config value of this run
    orders,               \* the order cache: id -> order record
    pos_event             \* position notification the runtime delivers next

vars == <<now, start_time, paxg_bid, paxg_ask, xaut_bid, xaut_ask, grid_state,
          working_orders, paired_orders, paired_close_orders, total_notional,
          pending_notional, positions_synced, last_reconciliation,
          initial_notional_override, orders, pos_event>>


\* The strategy and cache state a callback works on, as one record.
Snapshot(distinct) ==
    [now |-> now, distinct |-> distinct, cancels |-> {}, gs |-> grid_state,
     wo |-> working_orders, po |-> paired_orders, pc |-> paired_close_orders,
     total |-> total_notional, pending |-> pending_notional, ords |-> orders]

\* self.clock.timestamp_ns(), in clock quanta: the event time, or (distinct)
\* a reading later than every stamp taken so far; the stamps still held are
\* the tracker keys and submit times.
Clock(S) ==
    LET base == S.now * SubRes
        held == {k \in (DOMAIN S.po) \cup (DOMAIN S.pc) : k >= base}
                \cup {S.pc[k].submit_time : k \in DOMAIN S.pc}
        later == {k + 1 : k \in {h \in held : h >= base}}
    IN IF S.distinct /\ later # {}
       THEN CHOOSE m \in later : \A x \in later : x <= m
       ELSE base

\* ------------------------------------------------------------- the caches
\* cache.position(pos_id): the position an open order's fill created; the
\* position id is the id of that order.
PositionExists(ords, p) ==
    /\ p \in 1..Len(ords)
    /\ ords[p].kind = "open"
    /\ ords[p].status = "filled"

\* Position.is_open: no reduce-only close order against it has filled.
PositionIsOpen(ords, p) ==
    /\ PositionExists(ords, p)
    /\ ~ \E c \in 1..Len(ords) :
            ords[c].kind = "close" /\ ords[c].target = p /\ ords[c].status = "filled"

\* cache.positions_open(), those of one instrument
PositionsOpen(ords, inst) ==
    {p \in 1..Len(ords) : PositionIsOpen(ords, p) /\ ords[p].inst = inst}

\* An order in the cache is "submitted" (at the venue, not yet terminal),
\* "filled", or "closed" (rejected or canceled).
\* Order.is_open: at the venue and not yet terminal.
OrderIsOpen(ords, o) == o \in 1..Len(ords) /\ ords[o].status = "submitted"

\* submit_order: the order enters the cache as submitted.
SubmitOrder(S, kind, inst, level, target) ==
    [S EXCEPT !.ords = Append(@, [kind |-> kind, inst |-> inst, level |-> level,
                                  status |-> "submitted", target |-> target])]

\* _get_level_notional for a weight mapping (percent): position_weights.get(level, 1.0)
LevelNotional(weights, level) ==
    LET weight == IF level \in DOMAIN weights THEN weights[level] ELSE 100
    IN (BaseNotionalPerLevel * weight) \div 100

\* _get_level_notional
GetLevelNotional(level) == LevelNotional(PositionWeights, level)

\* _mid_price, for quotes that are set
MidPrice(bid, ask) == (bid + ask) \div 2

\* a quote check that lets a tick through with one instrument unquoted
AnyQuotes(pb, pa, xb, xa) == TRUE

\* a quote check that looks at the PAXG quote only
PaxgQuoted(pb, pa, xb, xa) == pb # None /\ pa # None

\* _has_valid_quotes
HasValidQuotes(pb, pa, xb, xa) ==
    pb # None /\ pa # None /\ xb # None /\ xa # None

\* _calc_spread: None while a mid price is missing, else the fraction
\* (paxg_mid - xaut_mid) / xaut_mid as <<numerator, denominator>>
CalcSpread(pb, pa, xb, xa) ==
    IF pb = None \/ pa = None \/ xb = None \/ xa = None THEN None
    ELSE <<MidPrice(pb, pa) - MidPrice(xb, xa), MidPrice(xb, xa)>>

\* _grid_has_position
GridHasPosition(state) == state.paxg_pos_id # None \/ state.xaut_pos_id # None

\* an open pass that does not look for an in-flight open tracker
NoPendingOrders(S, level) == FALSE

\* _grid_has_pending_orders
GridHasPendingOrders(S, level) == \E k \in DOMAIN S.po : S.po[k].level = level

\* a cancel helper that asks the venue without looking at the order
CancelUnchecked(S, o) == [S EXCEPT !.cancels = @ \cup {o}]

\* _safe_cancel_order: a cancel request goes out only for an open order.
\* The request changes nothing the strategy reads; cancels collects the
\* requests of the running callback.
SafeCancelOrder(S, o) ==
    IF OrderIsOpen(S.ords, o)
    THEN [S EXCEPT !.cancels = @ \cup {o}]
    ELSE S

\* _close_position: <<state after, id of the close order or None>>
ClosePosition(S, pos_id) ==
    IF ~PositionExists(S.ords, pos_id) THEN <<S, None>>
    ELSE IF ~PositionIsOpen(S.ords, pos_id) THEN <<S, None>>
    ELSE <<SubmitOrder(S, "close", S.ords[pos_id].inst, S.ords[pos_id].level, pos_id),
           Len(S.ords) + 1>>

\* _close_grid
CloseGrid(S, level) ==
    LET state == S.gs[level] IN
    IF state.paxg_pos_id = None /\ state.xaut_pos_id = None THEN S
    ELSE IF \E k \in DOMAIN S.pc : S.pc[k].level = level THEN S
    ELSE
      LET r1 == IF state.paxg_pos_id # None
                THEN ClosePosition(S, state.paxg_pos_id) ELSE <<S, None>>
          r2 == IF state.xaut_pos_id # None
                THEN ClosePosition(r1[1], state.xaut_pos_id) ELSE <<r1[1], None>>
          paxg_order == r1[2]
          xaut_order == r2[2]
          S2 == r2[1]
      IN IF paxg_order = None /\ xaut_order = None
         THEN [S2 EXCEPT !.gs[level] = [paxg_pos_id |-> None, xaut_pos_id |-> None]]
         ELSE LET submit_time == Clock(S2)
                  tracker == [level |-> level,
                              paxg_order_id |-> paxg_order,
                              xaut_order_id |-> xaut_order,
                              submit_time |-> submit_time,
                              paxg_filled |-> (paxg_order = None),
                              xaut_filled |-> (xaut_order = None)]
              IN [S2 EXCEPT !.pc = Put(@, submit_time, tracker)]

\* an _open_grid that books the notional of one leg only
OpenGridOneLeg(S, level, positive) ==
    LET S1 == SubmitOrder(S, "open", "PAXG", level, None)
        S2 == SubmitOrder(S1, "open", "XAUT", level, None)
        submit_time == Clock(S2)
        paxg_leg_tag == IF positive THEN "PAXG_SHORT" ELSE "PAXG_LONG"
        xaut_leg_tag == IF positive THEN "XAUT_LONG" ELSE "XAUT_SHORT"
    IN [S2 EXCEPT !.wo = Put(Put(@, Len(S1.ords), <<level, paxg_leg_tag>>),
                             Len(S2.ords), <<level, xaut_leg_tag>>),
                  !.po = Put(@, submit_time,
                             [level |-> level, paxg_order_id |-> Len(S1.ords),
                              xaut_order_id |-> Len(S2.ords),
                              submit_time |-> submit_time,
                              paxg_filled |-> FALSE, xaut_filled |-> FALSE,
                              paxg_leg |-> paxg_leg_tag, xaut_leg |-> xaut_leg_tag]),
                  !.pending = @ + GetLevelNotional(level)]

\* _open_grid; positive is spread > 0
OpenGrid(S, level, positive) ==
    LET notional == GetLevelNotional(level)
        paxg_leg_tag == IF positive THEN "PAXG_SHORT" ELSE "PAXG_LONG"
        xaut_leg_tag == IF positive THEN "XAUT_LONG" ELSE "XAUT_SHORT"
        S1 == SubmitOrder(S, "open", "PAXG", level, None)
        paxg_order == Len(S1.ords)
        S2 == SubmitOrder(S1, "open", "XAUT", level, None)
        xaut_order == Len(S2.ords)
        submit_time == Clock(S2)
        tracker == [level |-> level,
                    paxg_order_id |-> paxg_order,
                    xaut_order_id |-> xaut_order,
                    submit_time |-> submit_time,
                    paxg_filled |-> FALSE,
                    xaut_filled |-> FALSE,
                    paxg_leg |-> paxg_leg_tag,
                    xaut_leg |-> xaut_leg_tag]
    IN [S2 EXCEPT !.wo = Put(Put(@, paxg_order, <<level, paxg_leg_tag>>),
                             xaut_order, <<level, xaut_leg_tag>>),
                  !.po = Put(@, submit_time, tracker),
                  !.pending = @ + 2 * notional]

\* _close_all_grids
RECURSIVE CloseAllGrids(_, _)
CloseAllGrids(S, i) ==
    IF i > Len(LevelsSorted) THEN S
    ELSE CloseAllGrids(CloseGrid(S, LevelsSorted[i]), i + 1)

\* a close pass that compares the spread with the level's own threshold
OwnLevel(i) == LevelsSorted[i]

\* a close pass whose lowest level closes below its own threshold
PrevLevelFloor(i) == IF i = 1 THEN LevelsSorted[1] ELSE LevelsSorted[i - 1]

\* prev_level of the i-th level in the close pass
PrevLevel(i) == IF i = 1 THEN 0 ELSE LevelsSorted[i - 1]

\* _process_grids, step 1: the close pass from the i-th level on.  The spread
\* is num / den, den > 0; abs_spread < prev_level is compared exactly.
RECURSIVE ClosePass(_, _, _, _)
ClosePass(S, i, num, den) ==
    IF i > Len(LevelsSorted) THEN S
    ELSE LET level == LevelsSorted[i]
             prev_level == PrevLevel(i)
             S1 == IF GridHasPosition(S.gs[level])
                      /\ Abs(num) * SpreadScale < prev_level * den
                   THEN CloseGrid(S, level) ELSE S
         IN ClosePass(S1, i + 1, num, den)

\* a risk check that lets every level through
NoRiskCheck(S, level) == TRUE

\* a risk check that leaves the pending notional out
WithinMaxConfirmed(S, level) ==
    ~ (S.total + 2 * GetLevelNotional(level) > MaxTotalNotional)

\* the risk check of the open pass: the level fits under max_total_notional
WithinMaxTotal(S, level) ==
    ~ (S.total + S.pending + 2 * GetLevelNotional(level) > MaxTotalNotional)

\* an engine that takes every spread for a positive one
AlwaysPositive(num) == TRUE

\* _open_grid, 'if spread > 0'
SpreadPositive(num) == num > 0

\* _process_grids, step 2: the open pass from the i-th level on
RECURSIVE OpenPass(_, _, _, _)
OpenPass(S, i, num, den) ==
    IF i > Len(LevelsSorted) THEN S
    ELSE LET level == LevelsSorted[i]
             S1 == IF GridHasPosition(S.gs[level]) THEN S
                   ELSE IF GridHasPendingOrders(S, level) THEN S
                   ELSE IF Abs(num) * SpreadScale > level * den
                        THEN IF WithinMaxTotal(S, level)
                             THEN OpenGrid(S, level, SpreadPositive(num))
                             ELSE S
                        ELSE S
         IN OpenPass(S1, i + 1, num, den)

\* _process_grids
ProcessGrids(S, num, den) == OpenPass(ClosePass(S, 1, num, den), 1, num, den)


ClearedState == [paxg_pos_id |-> None, xaut_pos_id |-> None]

\* order_timeout_sec in clock quanta (timeout_ns)
TimeoutNs == OrderTimeoutSec * SubRes

\* a close timeout that gives an aged tracker up instead of retrying
CloseTimeoutForget(S, k, current_time) ==
    IF current_time - S.pc[k].submit_time < TimeoutNs THEN S
    ELSE [S EXCEPT !.pc = Del(@, k)]

\* _check_close_order_timeouts, the body of the loop for the tracker at key k
CloseTimeoutOne(S, k, current_time) ==
    LET tracker == S.pc[k]
        level == tracker.level
        notional == GetLevelNotional(level)
        gone == [S EXCEPT !.gs[level] = ClearedState,
                          !.total = Max0(@ - 2 * notional),
                          !.pc = Del(@, k)]
    IN
    IF current_time - tracker.submit_time < TimeoutNs THEN S
    ELSE IF tracker.paxg_filled /\ tracker.xaut_filled THEN gone
    ELSE IF tracker.paxg_filled /\ ~tracker.xaut_filled THEN
        LET S1 == IF tracker.xaut_order_id # None
                  THEN SafeCancelOrder(S, tracker.xaut_order_id) ELSE S
            state == S1.gs[level]
        IN IF state.xaut_pos_id # None
           THEN LET r == ClosePosition(S1, state.xaut_pos_id)
                IN IF r[2] # None
                   THEN [r[1] EXCEPT !.pc[k].xaut_order_id = r[2],
                                     !.pc[k].submit_time = current_time]
                   ELSE r[1]
           ELSE [S1 EXCEPT !.gs[level] = ClearedState,
                           !.total = Max0(@ - 2 * notional),
                           !.pc = Del(@, k)]
    ELSE IF tracker.xaut_filled /\ ~tracker.paxg_filled THEN
        LET S1 == IF tracker.paxg_order_id # None
                  THEN SafeCancelOrder(S, tracker.paxg_order_id) ELSE S
            state == S1.gs[level]
        IN IF state.paxg_pos_id # None
           THEN LET r == ClosePosition(S1, state.paxg_pos_id)
                IN IF r[2] # None
                   THEN [r[1] EXCEPT !.pc[k].paxg_order_id = r[2],
                                     !.pc[k].submit_time = current_time]
                   ELSE r[1]
           ELSE [S1 EXCEPT !.gs[level] = ClearedState,
                           !.total = Max0(@ - 2 * notional),
                           !.pc = Del(@, k)]
    ELSE
        LET S1 == IF tracker.paxg_order_id # None
                  THEN SafeCancelOrder(S, tracker.paxg_order_id) ELSE S
            S2 == IF tracker.xaut_order_id # None
                  THEN SafeCancelOrder(S1, tracker.xaut_order_id) ELSE S1
            S3 == [S2 EXCEPT !.pc = Del(@, k)]
        IN CloseGrid(S3, level)

RECURSIVE CloseTimeoutLoop(_, _, _)
CloseTimeoutLoop(S, keys, current_time) ==
    IF keys = <<>> THEN S
    ELSE CloseTimeoutLoop(CloseTimeoutOne(S, Head(keys), current_time),
                          Tail(keys), current_time)

\* _check_close_order_timeouts
CheckCloseOrderTimeouts(S) ==
    IF DOMAIN S.pc = {} THEN S
    ELSE CloseTimeoutLoop(S, SortedSeq(DOMAIN S.pc), Clock(S))

\* _check_order_timeouts, the body of the loop for the tracker at key k
OpenTimeoutOne(S, k, current_time) ==
    LET tracker == S.po[k]
        level == tracker.level
        notional == GetLevelNotional(level)
    IN
    IF current_time - tracker.submit_time < TimeoutNs THEN S
    ELSE IF tracker.paxg_filled /\ tracker.xaut_filled
         THEN [S EXCEPT !.po = Del(@, k)]
    ELSE IF tracker.paxg_filled /\ ~tracker.xaut_filled THEN
        LET S1 == SafeCancelOrder(S, tracker.xaut_order_id)
            state == S1.gs[level]
            S2 == IF state.paxg_pos_id # None
                  THEN [ClosePosition(S1, state.paxg_pos_id)[1]
                           EXCEPT !.gs[level].paxg_pos_id = None]
                  ELSE S1
        IN [S2 EXCEPT !.pending = Max0(@ - 2 * notional), !.po = Del(@, k)]
    ELSE IF tracker.xaut_filled /\ ~tracker.paxg_filled THEN
        LET S1 == SafeCancelOrder(S, tracker.paxg_order_id)
            state == S1.gs[level]
            S2 == IF state.xaut_pos_id # None
                  THEN [ClosePosition(S1, state.xaut_pos_id)[1]
                           EXCEPT !.gs[level].xaut_pos_id = None]
                  ELSE S1
        IN [S2 EXCEPT !.pending = Max0(@ - 2 * notional), !.po = Del(@, k)]
    ELSE
        LET S1 == SafeCancelOrder(S, tracker.paxg_order_id)
            S2 == SafeCancelOrder(S1, tracker.xaut_order_id)
        IN [S2 EXCEPT !.pending = Max0(@ - 2 * notional), !.po = Del(@, k)]

RECURSIVE OpenTimeoutLoop(_, _, _)
OpenTimeoutLoop(S, keys, current_time) ==
    IF keys = <<>> THEN S
    ELSE OpenTimeoutLoop(OpenTimeoutOne(S, Head(keys), current_time),
                         Tail(keys), current_time)

\* _check_order_timeouts: with no open tracker it returns at once, before the
\* close trackers are looked at.
CheckOrderTimeouts(S) ==
    IF DOMAIN S.po = {} THEN S
    ELSE CheckCloseOrderTimeouts(
             OpenTimeoutLoop(S, SortedSeq(DOMAIN S.po), Clock(S)))

\* _handle_order_failure
HandleOrderFailure(S, order_id) ==
    LET hits == {k \in DOMAIN S.po : S.po[k].paxg_order_id = order_id
                                     \/ S.po[k].xaut_order_id = order_id}
    IN
    IF hits = {} THEN S
    ELSE
      LET k == CHOOSE x \in hits : \A y \in hits : x <= y
          tracker == S.po[k]
          level == tracker.level
          notional == GetLevelNotional(level)
          state == S.gs[level]
          S1 == IF tracker.paxg_order_id = order_id
                THEN IF tracker.xaut_filled
                     THEN IF state.xaut_pos_id # None
                          THEN [ClosePosition(S, state.xaut_pos_id)[1]
                                   EXCEPT !.gs[level].xaut_pos_id = None]
                          ELSE S
                     ELSE SafeCancelOrder(S, tracker.xaut_order_id)
                ELSE IF tracker.paxg_filled
                     THEN IF state.paxg_pos_id # None
                          THEN [ClosePosition(S, state.paxg_pos_id)[1]
                                   EXCEPT !.gs[level].paxg_pos_id = None]
                          ELSE S
                     ELSE SafeCancelOrder(S, tracker.paxg_order_id)
      IN [S1 EXCEPT !.pending = Max0(@ - 2 * notional), !.po = Del(@, k)]

\* _handle_close_order_fill
HandleCloseOrderFill(S, order_id) ==
    LET hits == {k \in DOMAIN S.pc : S.pc[k].paxg_order_id = order_id
                                     \/ S.pc[k].xaut_order_id = order_id}
    IN
    IF hits = {} THEN S
    ELSE
      LET k == CHOOSE x \in hits : \A y \in hits : x <= y
          tracker == S.pc[k]
          level == tracker.level
          notional == GetLevelNotional(level)
          isPaxg == tracker.paxg_order_id = order_id
          otherFilled == IF isPaxg THEN tracker.xaut_filled ELSE tracker.paxg_filled
          S1 == IF isPaxg THEN [S EXCEPT !.pc[k].paxg_filled = TRUE]
                ELSE [S EXCEPT !.pc[k].xaut_filled = TRUE]
      IN IF otherFilled
         THEN [S1 EXCEPT !.gs[level] = ClearedState,
                         !.total = Max0(@ - 2 * notional),
                         !.pc = Del(@, k)]
         ELSE S1

\* a lookup in working_orders that leaves the entry in place
PeekWorkingOrder(S, order_id) == S

\* working_orders.pop(event.client_order_id, ...), the removal
PopWorkingOrder(S, order_id) == [S EXCEPT !.wo = Del(@, order_id)]

\* on_order_filled; pos is what cache.position_for_order returns: the id of
\* the order's position, or None when the cache does not know it yet.
OnOrderFilled(S, order_id, pos) ==
    IF order_id \notin DOMAIN S.wo THEN S
    ELSE
      LET level == S.wo[order_id][1]
          leg == S.wo[order_id][2]
          S0 == PopWorkingOrder(S, order_id)
          hits == {k \in DOMAIN S0.po : S0.po[k].paxg_order_id = order_id
                                        \/ S0.po[k].xaut_order_id = order_id}
          found == hits # {}
          k == CHOOSE x \in hits : \A y \in hits : x <= y
          isPaxg == found /\ S0.po[k].paxg_order_id = order_id
          both_filled == found /\ (IF isPaxg THEN S0.po[k].xaut_filled
                                   ELSE S0.po[k].paxg_filled)
          notional == IF found THEN GetLevelNotional(S0.po[k].level) ELSE 0
          S1 == IF ~found THEN S0
                ELSE IF isPaxg THEN [S0 EXCEPT !.po[k].paxg_filled = TRUE]
                ELSE [S0 EXCEPT !.po[k].xaut_filled = TRUE]
          S2 == IF both_filled
                THEN [S1 EXCEPT !.pending = Max0(@ - 2 * notional),
                                !.total = @ + 2 * notional]
                ELSE S1
          S3 == IF leg \in {"PAXG_LONG", "PAXG_SHORT"}
                THEN [S2 EXCEPT !.gs[level].paxg_pos_id = pos]
                ELSE [S2 EXCEPT !.gs[level].xaut_pos_id = pos]
          S4 == IF both_filled /\ S3.gs[level].paxg_pos_id # None
                               /\ S3.gs[level].xaut_pos_id # None
                THEN [S3 EXCEPT !.po = Del(@, k)]
                ELSE S3
      IN HandleCloseOrderFill(S4, order_id)

\* notional of a position as the cache reports it (quantity * avg_px_open);
\* None stands for "no such position"
PositionNotional(ords, p) ==
    IF p = None THEN 0 ELSE GetLevelNotional(ords[p].level)

\* the position a loop over cache.positions_open() sees last for an
\* instrument (the loops keep the last one): any open one, None without one
LastSeen(ords, inst) ==
    IF PositionsOpen(ords, inst) = {} THEN {None} ELSE PositionsOpen(ords, inst)

\* _update_notional_from_portfolio
UpdateNotionalFromPortfolio(S, paxg_pos, xaut_pos) ==
    [S EXCEPT !.total = PositionNotional(S.ords, paxg_pos)
                        + PositionNotional(S.ords, xaut_pos)]

RECURSIVE SumNotional(_, _)
SumNotional(ords, ps) ==
    IF ps = {} THEN 0
    ELSE LET p == CHOOSE x \in ps : TRUE
         IN PositionNotional(ords, p) + SumNotional(ords, ps \ {p})

\* _get_actual_position_notional
GetActualPositionNotional(S, inst) == SumNotional(S.ords, PositionsOpen(S.ords, inst))

\* a drift test that fires at the threshold already
DriftAtThreshold(diff) == diff >= DriftThreshold

\* the drift test of _reconcile_positions
Drifted(diff) == diff > DriftThreshold

\* a reconciliation that also writes off what is in flight when it finds drift
ReconcileAndReset(S) ==
    LET actual_total == GetActualPositionNotional(S, "PAXG")
                        + GetActualPositionNotional(S, "XAUT")
    IN IF Drifted(Abs(actual_total - S.total))
       THEN [S EXCEPT !.total = actual_total, !.pending = 0]
       ELSE S

\* _reconcile_positions, its effect on total_notional
ReconcilePositions(S) ==
    LET actual_total == GetActualPositionNotional(S, "PAXG")
                        + GetActualPositionNotional(S, "XAUT")
        diff == Abs(actual_total - S.total)
    IN IF Drifted(diff) THEN [S EXCEPT !.total = actual_total] ELSE S

\* _reconcile_positions: whether the run logs CRITICAL IMBALANCE.  The
\* imbalance check sits inside the drift branch; imbalance > 0.20 is
\* 5 * |paxg - xaut| > actual_total.
ImbalanceAlert(S) ==
    LET actual_paxg_notional == GetActualPositionNotional(S, "PAXG")
        actual_xaut_notional == GetActualPositionNotional(S, "XAUT")
        actual_total == actual_paxg_notional + actual_xaut_notional
        diff == Abs(actual_total - S.total)
    IN /\ Drifted(diff)
       /\ actual_total > 0
       /\ 5 * Abs(actual_paxg_notional - actual_xaut_notional) > actual_total

\* the levels _sync_existing_positions marks: the first estimated_grids levels
RECURSIVE MarkLevels(_, _, _, _, _)
MarkLevels(gs, i, estimated_grids, paxg_mark, xaut_mark) ==
    IF i > Len(LevelsSorted) THEN gs
    ELSE MarkLevels(
           IF i - 1 < estimated_grids
           THEN [gs EXCEPT ![LevelsSorted[i]] =
                    [paxg_pos_id |-> paxg_mark, xaut_pos_id |-> xaut_mark]]
           ELSE gs,
           i + 1, estimated_grids, paxg_mark, xaut_mark)

\* an estimate that rounds up
EstimatedUp(notional) ==
    (notional + 2 * BaseNotionalPerLevel - 1) \div (2 * BaseNotionalPerLevel)

\* estimated_grids of _sync_existing_positions
EstimatedGrids(notional) ==
    LET notional_per_grid == 2 * BaseNotionalPerLevel
    IN IF notional_per_grid > 0 THEN notional \div notional_per_grid ELSE 0

\* a sync that asks the portfolio whatever the cache has shown
AlwaysAsk(paxg_pos, xaut_pos) == TRUE

\* _sync_existing_positions asks portfolio.net_exposure only if
\* cache.positions_open() has shown no position of either instrument
NoPositionFound(paxg_pos, xaut_pos) == paxg_pos = None /\ xaut_pos = None

\* _sync_existing_positions.  paxg_pos / xaut_pos: the open position
\* cache.positions_open() shows for the instrument (None when it shows none),
\* paxg_pos_notional / xaut_pos_notional its quantity * avg_px_open;
\* paxg_exposure / xaut_exposure: what portfolio.net_exposure answers.  The
\* last fallback, cache.positions() filtered by is_open, reads the cache
\* positions_open() has just read and finds what that found: nothing.
SyncExistingPositions(S, override, paxg_pos, paxg_pos_notional, xaut_pos, xaut_pos_notional, paxg_exposure, xaut_exposure) ==
    IF override > 0
    THEN LET estimated_grids == EstimatedGrids(override)
         IN [S EXCEPT !.total = override,
                      !.gs = MarkLevels(@, 1, estimated_grids,
                                        MANUAL_OVERRIDE, MANUAL_OVERRIDE)]
    ELSE LET none_found == NoPositionFound(paxg_pos, xaut_pos)
             paxg_notional ==
                 IF paxg_pos # None THEN paxg_pos_notional
                 ELSE IF none_found /\ paxg_exposure # NoExposure
                      THEN Abs(paxg_exposure) ELSE 0
             xaut_notional ==
                 IF xaut_pos # None THEN xaut_pos_notional
                 ELSE IF none_found /\ xaut_exposure # NoExposure
                      THEN Abs(xaut_exposure) ELSE 0
             total_detected == paxg_notional + xaut_notional
             estimated_grids == EstimatedGrids(total_detected)
         IN IF total_detected > 0
            THEN [S EXCEPT !.total = total_detected,
                           !.gs = MarkLevels(@, 1, estimated_grids,
                                     IF paxg_pos # None THEN paxg_pos ELSE DETECTED,
                                     IF xaut_pos # None THEN xaut_pos ELSE DETECTED)]
            ELSE S


\* ------------------------------------------------------------------ Init
\* The state when on_start has returned: empty grid, no quotes, no orders.
Init ==
    /\ now \in StartClocks
    /\ start_time = now
    /\ paxg_bid = None /\ paxg_ask = None
    /\ xaut_bid = None /\ xaut_ask = None
    /\ grid_state = [l \in LevelSet |-> ClearedState]
    /\ working_orders = EmptyMap
    /\ paired_orders = EmptyMap
    /\ paired_close_orders = EmptyMap
    /\ total_notional = 0
    /\ pending_notional = 0
    /\ positions_synced = FALSE
    /\ last_reconciliation = 0
    /\ initial_notional_override \in OverrideValues
    /\ orders = <<>>
    /\ pos_event = "none"

\* the strategy fields and the cache taken from a record a callback returns
Commit(S) ==
    /\ grid_state' = S.gs
    /\ working_orders' = S.wo
    /\ paired_orders' = S.po
    /\ paired_close_orders' = S.pc
    /\ total_notional' = S.total
    /\ pending_notional' = S.pending
    /\ orders' = S.ords

\* an engine that treats every spread as extreme: it closes all and returns
\* on every tick and never gets back to the grid passes
AlwaysExtreme(num, den) == TRUE

\* abs(spread) > extreme_spread_stop, for spread = num / den
IsExtreme(num, den) == Abs(num) * SpreadScale > ExtremeSpreadStop * den

\* _should_reconcile
ShouldReconcile(S, last) == Clock(S) - last >= ReconciliationInterval * SubRes

\* on_quote_tick from the startup sync on (quotes valid, startup delay over):
\* the record after the callback and the new _last_reconciliation_ns.
\* synced is _positions_synced before the call; exposure is what
\* portfolio.net_exposure answers for <<PAXG, XAUT>> should startup sync ask.
DecisionTick(S, synced, override, paxg_pos, xaut_pos, exposure, num, den, last) ==
    LET S1 == IF synced THEN S
              ELSE SyncExistingPositions(S, override,
                       paxg_pos, PositionNotional(S.ords, paxg_pos),
                       xaut_pos, PositionNotional(S.ords, xaut_pos),
                       exposure[1], exposure[2])
    IN IF IsExtreme(num, den)
       THEN <<CloseAllGrids(S1, 1), last>>
       ELSE LET S2 == ProcessGrids(S1, num, den)
                rec == ShouldReconcile(S2, last)
                S3 == IF rec THEN ReconcilePositions(S2) ELSE S2
                last2 == IF rec THEN Clock(S2) ELSE last
            IN <<CheckOrderTimeouts(S3), last2>>

\* the open position of an instrument the startup sync reads from the cache;
\* a tick after the sync does not read it
SeenAtSync(inst) == IF positions_synced THEN {None} ELSE LastSeen(orders, inst)

\* on_quote_tick for a tick of instrument inst with quote q = <<bid, ask>>;
\* distinct: the clock readings of this callback are all different; exposure:
\* the net exposures the portfolio reports; cap: the orders the venue accepts.
OnQuoteTick(inst, q, distinct, exposure, cap) ==
    /\ pos_event = "none"
    /\ LET pb == IF inst = "PAXG" THEN q[1] ELSE paxg_bid
           pa == IF inst = "PAXG" THEN q[2] ELSE paxg_ask
           xb == IF inst = "XAUT" THEN q[1] ELSE xaut_bid
           xa == IF inst = "XAUT" THEN q[2] ELSE xaut_ask
           S == Snapshot(distinct)
       IN /\ paxg_bid' = pb /\ paxg_ask' = pa
          /\ xaut_bid' = xb /\ xaut_ask' = xa
          /\ IF ~HasValidQuotes(pb, pa, xb, xa)
                \/ Clock(S) - start_time * SubRes < StartupDelaySec * SubRes
             THEN UNCHANGED <<grid_state, working_orders, paired_orders,
                              paired_close_orders, total_notional, pending_notional,
                              orders, positions_synced, last_reconciliation>>
             ELSE \E paxg_pos \in SeenAtSync("PAXG"), xaut_pos \in SeenAtSync("XAUT") :
                    LET r == DecisionTick(S, positions_synced,
                                          initial_notional_override,
                                          paxg_pos, xaut_pos, exposure,
                                          MidPrice(pb, pa) - MidPrice(xb, xa),
                                          MidPrice(xb, xa), last_reconciliation)
                    IN /\ Len(r[1].ords) <= cap
                       /\ Commit(r[1])
                       /\ positions_synced' = TRUE
                       /\ last_reconciliation' = r[2]
    /\ UNCHANGED <<now, start_time, initial_notional_override, pos_event>>

\* a quote tick of a run that starts with a flat account: the portfolio has
\* no exposure to report to the startup sync
QuoteTick(inst, q, distinct) ==
    OnQuoteTick(inst, q, distinct, <<NoExposure, NoExposure>>, MaxOrders)

\* the clock moves on by one unit, up to limit units after the start
AdvanceClock(limit) ==
    /\ pos_event = "none"
    /\ now < start_time + limit
    /\ now' = now + 1
    /\ UNCHANGED <<start_time, paxg_bid, paxg_ask, xaut_bid, xaut_ask, grid_state,
                   working_orders, paired_orders, paired_close_orders,
                   total_notional, pending_notional, positions_synced,
                   last_reconciliation, initial_notional_override, orders, pos_event>>

\* the clock moves on by one unit
ClockAdvance == AdvanceClock(MaxElapsed)

Live(o) == orders[o].status = "submitted"

quoteVars == <<paxg_bid, paxg_ask, xaut_bid, xaut_ask>>
runVars == <<now, start_time, positions_synced, last_reconciliation,
             initial_notional_override>>

\* on_order_rejected: the venue rejects the submitted order o.
OrderRejected(o) ==
    /\ pos_event = "none"
    /\ orders[o].status = "submitted"
    /\ LET S == [Snapshot(FALSE) EXCEPT !.ords[o].status = "closed",
                                    !.wo = IF o \in DOMAIN @ THEN Del(@, o) ELSE @]
           R == HandleOrderFailure(S, o)
       IN /\ Len(R.ords) <= MaxOrders
          /\ Commit(R)
    /\ UNCHANGED <<quoteVars, runVars, pos_event>>

\* on_order_canceled: the venue cancels the live order o.
OrderCanceled(o) ==
    /\ pos_event = "none"
    /\ Live(o)
    /\ orders' = [orders EXCEPT ![o].status = "closed"]
    /\ working_orders' = IF o \in DOMAIN working_orders
                         THEN Del(working_orders, o) ELSE working_orders
    /\ UNCHANGED <<quoteVars, runVars, grid_state, paired_orders,
                   paired_close_orders, total_notional, pending_notional, pos_event>>

\* on_order_filled: the venue fills the live order o.  A reduce-only close
\* order fills only while its position is open.  The runtime calls the
\* strategy first and updates the position cache after it; pos is what
\* cache.position_for_order answers during the call.
OrderFilled(o, pos) ==
    /\ pos_event = "none"
    /\ Live(o)
    /\ orders[o].kind = "close" => PositionIsOpen(orders, orders[o].target)
    /\ pos \in {None, IF orders[o].kind = "open" THEN o ELSE orders[o].target}
    /\ LET S == [Snapshot(FALSE) EXCEPT !.ords[o].status = "filled"]
       IN Commit(OnOrderFilled(S, o, pos))
    /\ pos_event' = IF orders[o].kind = "open" THEN "opened" ELSE "closed"
    /\ UNCHANGED <<quoteVars, runVars>>

\* on_position_opened / on_position_closed: the notification that follows a
\* fill; both call _update_notional_from_portfolio.
PositionNotified(paxg_pos, xaut_pos) ==
    /\ pos_event # "none"
    /\ paxg_pos \in LastSeen(orders, "PAXG")
    /\ xaut_pos \in LastSeen(orders, "XAUT")
    /\ Commit(UpdateNotionalFromPortfolio(Snapshot(FALSE), paxg_pos, xaut_pos))
    /\ pos_event' = "none"
    /\ UNCHANGED <<quoteVars, runVars>>

\* on_stop: a cancel is requested for every order id the strategy still
\* tracks, through cancel_order itself.
OnStop(S) == [S EXCEPT !.cancels = @ \cup DOMAIN S.wo]

\* The engine stops the strategy.  The requests change nothing the strategy
\* reads; the venue's answers to them are OrderCanceled steps.
Stop ==
    /\ pos_event = "none"
    /\ Commit(OnStop(Snapshot(FALSE)))
    /\ UNCHANGED <<quoteVars, runVars, pos_event>>

OrderIds == 1..MaxOrders
PosChoices == {None} \cup OrderIds

Next ==
    \/ \E q \in PaxgQuotes, d \in BOOLEAN : QuoteTick("PAXG", q, d)
    \/ \E q \in XautQuotes, d \in BOOLEAN : QuoteTick("XAUT", q, d)
    \/ ClockAdvance
    \/ \E o \in DOMAIN orders : OrderRejected(o)
    \/ \E o \in DOMAIN orders : OrderCanceled(o)
    \/ \E o \in DOMAIN orders, pos \in PosChoices : OrderFilled(o, pos)
    \/ \E p \in PosChoices, x \in PosChoices : PositionNotified(p, x)
    \/ Stop

Spec == Init /\ [][Next]_vars

\* ------------------------------------------- the grid passes on their own
\* _process_grids is a function of the grid state, the ledger and the spread.
\* GridSpec starts it from the states the strategy is in between two ticks
\* with each level empty or open (both legs filled, positions known), and
\* applies it, tick after tick, for every spread of GridQuotes.

\* PAXG quotes against the XAUT quote 9999/10001: spreads -0.0025, 0.0008,
\* 0.0010, 0.0015, 0.0025 and 0.0035
GridQuotes == {<<9974, 9976>>, <<10007, 10009>>, <<10009, 10011>>,
               <<10014, 10016>>, <<10024, 10026>>, <<10034, 10036>>}
GridXaut == <<9999, 10001>>
GridStart == StartupDelaySec + 1

\* a level after _open_grid and the Filled events of both its orders, the
\* positions known to the cache at each fill
OpenedAndFilled(S, level) ==
    LET S1 == OpenGrid(S, level, TRUE)
        p == Len(S1.ords) - 1
        x == Len(S1.ords)
        S2 == OnOrderFilled([S1 EXCEPT !.ords[p].status = "filled"], p, p)
    IN OnOrderFilled([S2 EXCEPT !.ords[x].status = "filled"], x, x)

\* the strategy state with the levels from the i-th on brought to occ[level]
RECURSIVE GridBuild(_, _, _)
GridBuild(S, i, occ) ==
    IF i > Len(LevelsSorted) THEN S
    ELSE LET level == LevelsSorted[i]
         IN GridBuild(IF occ[level] = "open" THEN OpenedAndFilled(S, level) ELSE S,
                      i + 1, occ)

RECURSIVE SumLevelNotional(_)
SumLevelNotional(ls) ==
    IF ls = {} THEN 0
    ELSE LET l == CHOOSE x \in ls : TRUE
         IN 2 * GetLevelNotional(l) + SumLevelNotional(ls \ {l})

GridInit ==
    /\ now = GridStart
    /\ start_time = GridStart - StartupDelaySec
    /\ paxg_bid = 10007 /\ paxg_ask = 10009
    /\ xaut_bid = GridXaut[1] /\ xaut_ask = GridXaut[2]
    /\ positions_synced = TRUE
    /\ last_reconciliation = GridStart * SubRes
    /\ initial_notional_override = 0
    /\ pos_event = "none"
    /\ \E occ \in [LevelSet -> {"empty", "open"}] :
          /\ SumLevelNotional({l \in LevelSet : occ[l] # "empty"}) <= MaxTotalNotional
          /\ LET S == GridBuild([now |-> GridStart, distinct |-> TRUE, cancels |-> {},
                                 gs |-> [l \in LevelSet |-> ClearedState],
                                 wo |-> EmptyMap, po |-> EmptyMap, pc |-> EmptyMap,
                                 total |-> 0, pending |-> 0, ords |-> <<>>], 1, occ)
             IN /\ grid_state = S.gs
                /\ working_orders = S.wo
                /\ paired_orders = S.po
                /\ paired_close_orders = S.pc
                /\ total_notional = S.total
                /\ pending_notional = S.pending
                /\ orders = S.ords

\* the spread num / den of a PAXG quote against the XAUT quote (_calc_spread)
SpreadNum(q) == MidPrice(q[1], q[2]) - MidPrice(GridXaut[1], GridXaut[2])
SpreadDen == MidPrice(GridXaut[1], GridXaut[2])

\* a PAXG tick whose spread is not extreme, as far as _process_grids
GridTick(q, distinct) ==
    /\ paxg_bid' = q[1] /\ paxg_ask' = q[2]
    /\ LET R == ProcessGrids(Snapshot(distinct), SpreadNum(q), SpreadDen)
       IN /\ Len(R.ords) <= GridMaxOrders
          /\ Commit(R)
    /\ UNCHANGED <<now, start_time, xaut_bid, xaut_ask, positions_synced,
                   last_reconciliation, initial_notional_override, pos_event>>

GridNext == \E q \in GridQuotes, d \in BOOLEAN : GridTick(q, d)

GridSpec == GridInit /\ [][GridNext]_vars

\* --------------------------------------------- the startup sync on its own
\* SyncSpec starts the strategy on an account that is not flat: the cache
\* holds the positions of an earlier run, the portfolio reports exposures,
\* or the operator has set an override; the first quote tick after the
\* startup delay runs the sync, later ticks go on from what it left.

\* Orders the venue accepts in a run of SyncSpec, the earlier run's included.
SyncMaxOrders == 9
\* the values initial_notional_override takes
SyncOverrides == {0, 150, 250, 450, 600, 900, 1000}
\* what portfolio.net_exposure answers for an instrument
ExposureValues == {NoExposure, 0, 150, 300}
\* an order of an earlier run whose fill opened a position that is still open
EarlierFill(inst) ==
    [kind |-> "open", inst |-> inst, level |-> LevelsSorted[1],
     status |-> "filled", target |-> None]
\* the order cache at on_start: flat, one position, one of each instrument,
\* or seven positions (700 USDT)
SyncCaches ==
    {<<>>, <<EarlierFill("PAXG")>>, <<EarlierFill("XAUT")>>,
     <<EarlierFill("PAXG"), EarlierFill("XAUT")>>,
     <<EarlierFill("PAXG"), EarlierFill("XAUT"), EarlierFill("PAXG"),
       EarlierFill("XAUT"), EarlierFill("PAXG"), EarlierFill("XAUT"),
       EarlierFill("PAXG")>>}

SyncInit ==
    /\ now = GridStart
    /\ start_time = GridStart - StartupDelaySec
    /\ paxg_bid = None /\ paxg_ask = None
    /\ xaut_bid = GridXaut[1] /\ xaut_ask = GridXaut[2]
    /\ grid_state = [l \in LevelSet |-> ClearedState]
    /\ working_orders = EmptyMap
    /\ paired_orders = EmptyMap
    /\ paired_close_orders = EmptyMap
    /\ total_notional = 0
    /\ pending_notional = 0
    /\ positions_synced = FALSE
    /\ last_reconciliation = 0
    /\ initial_notional_override \in SyncOverrides
    /\ orders \in SyncCaches
    /\ pos_event = "none"

SyncNext ==
    \E q \in PaxgQuotes, d \in BOOLEAN, pe \in ExposureValues, xe \in ExposureValues :
        OnQuoteTick("PAXG", q, d, <<pe, xe>>, SyncMaxOrders)

SyncSpec == SyncInit /\ [][SyncNext]_vars

\* ------------------------------------------------- the closes on their own
\* CloseSpec starts the strategy between two ticks with the lowest and the
\* highest level open (both legs filled, positions known), and lets the
\* whole tick handler, the clock and the venue's answers to the orders act:
\* closes are triggered, their orders fill or are cancelled, time passes.

\* Orders the venue accepts in a run of CloseSpec, the opening ones included.
CloseMaxOrders == 9
\* Clock units a run of CloseSpec lasts: a close can time out twice.
CloseMaxElapsed == 3

\* a PAXG tick of a live run: the clock readings of a callback all differ
CloseTick(q) ==
    OnQuoteTick("PAXG", q, TRUE, <<NoExposure, NoExposure>>, CloseMaxOrders)

CloseNext ==
    \/ \E q \in PaxgQuotes : CloseTick(q)
    \/ AdvanceClock(CloseMaxElapsed)
    \/ \E o \in DOMAIN orders : OrderCanceled(o)
    \/ \E o \in DOMAIN orders, pos \in {None} \cup DOMAIN orders : OrderFilled(o, pos)
    \/ \E p \in {None} \cup DOMAIN orders, x \in {None} \cup DOMAIN orders :
          PositionNotified(p, x)
    \/ Stop

\* the lowest and the highest level are open at the start
CloseInit ==
    /\ GridInit
    /\ \A i \in 1..Len(LevelsSorted) :
          GridHasPosition(grid_state[LevelsSorted[i]]) <=> i \in {1, Len(LevelsSorted)}

CloseSpec == CloseInit /\ [][CloseNext]_vars

\* CloseLive is CloseSpec with the scheduling the runtime gives: quote ticks
\* keep arriving (the market may stay at the quiet spread 0.0008 for good),
\* the venue answers every live order, every fill is followed by its position
\* notification, and time passes.  The ticks' fairness is weak fairness of
\* the quiet tick in the form []<>~ENABLED: again and again the quiet tick
\* has done all it can do.
QuietQuote == <<10007, 10009>>

\* a tick with the quiet quote would change nothing: ENABLED of that tick
\* as a step that changes the state, negated and computed from the handler
QuietTickIdle ==
    \/ pos_event # "none"
    \/ /\ paxg_bid = QuietQuote[1] /\ paxg_ask = QuietQuote[2]
       /\   LET r == DecisionTick(Snapshot(TRUE), positions_synced,
                                   initial_notional_override, None, None,
                                   <<NoExposure, NoExposure>>,
                                   MidPrice(QuietQuote[1], QuietQuote[2])
                                       - MidPrice(xaut_bid, xaut_ask),
                                   MidPrice(xaut_bid, xaut_ask), last_reconciliation)
             IN \/ Len(r[1].ords) > CloseMaxOrders
                \/ /\ r[1].gs = grid_state /\ r[1].wo = working_orders
                   /\ r[1].po = paired_orders /\ r[1].pc = paired_close_orders
                   /\ r[1].total = total_notional /\ r[1].pending = pending_notional
                   /\ r[1].ords = orders /\ r[2] = last_reconciliation

CloseLive ==
    /\ CloseSpec
    /\ []<>QuietTickIdle
    /\ WF_vars(\E o \in DOMAIN orders, pos \in {None} \cup DOMAIN orders : OrderFilled(o, pos))
    /\ WF_vars(\E p \in {None} \cup DOMAIN orders, x \in {None} \cup DOMAIN orders :
                  PositionNotified(p, x))
    /\ WF_vars(AdvanceClock(CloseMaxElapsed))

\* ------------------------------------------------------- claim vocabulary
\* the open / close Transactions (trackers) in flight for a level
OpenTransactions(l) == {k \in DOMAIN paired_orders : paired_orders[k].level = l}
CloseTransactions(l) ==
    {k \in DOMAIN paired_close_orders : paired_close_orders[k].level = l}
\* fewer than two legs filled
Unresolved(tracker) == ~(tracker.paxg_filled /\ tracker.xaut_filled)
UnresolvedOpen(l) ==
    {k \in OpenTransactions(l) : Unresolved(paired_orders[k])}
\* exactly one leg handle recorded
OneHandle(l) ==
    (grid_state[l].paxg_pos_id = None) # (grid_state[l].xaut_pos_id = None)
BothHandles(l) ==
    grid_state[l].paxg_pos_id # None /\ grid_state[l].xaut_pos_id # None

\* every open order ever submitted is a leg of the open Transaction in flight
\* that was created with it, or that Transaction has been resolved: no
\* tracker was replaced under its key by another one
NoLostTransaction ==
    pending_notional = SumLevelNotional({l \in LevelSet : UnresolvedOpen(l) # {}})

\* ------------------------------------------------------------------ C1
\* C1: no level stays with exactly one leg handle recorded beyond the order
\* timeout of its Transaction.  The only thing that ever bounds the time a
\* lone handle stays is the timeout poll (or reject recovery) of a Transaction
\* in flight for that level, so at every moment a level with exactly one
\* handle has an open or a close Transaction in flight; this covers a Filled
\* event that arrives after recovery has deleted the Transaction.  (Stated
\* for the runs in which no tracker was lost to a key collision.)
C1_NoOrphanLeg ==
    NoLostTransaction =>
        \A l \in LevelSet :
            OneHandle(l) => OpenTransactions(l) # {} \/ CloseTransactions(l) # {}

\* ------------------------------------------------------------------ C2
\* C2: pendingNotional is the sum of 2 * levelNotional over the levels that
\* have an open Transaction in flight with fewer than two legs filled.
C2_PendingIsInFlightSum ==
    \E ls \in SUBSET LevelSet :
        /\ \A l \in LevelSet :
              l \in ls <=> \E k \in DOMAIN paired_orders :
                              /\ paired_orders[k].level = l
                              /\ Unresolved(paired_orders[k])
        /\ pending_notional = SumLevelNotional(ls)

\* ------------------------------------------------------------------ C3
\* the order o is a leg of an open Transaction in flight with fewer than two
\* legs filled
LegOfUnresolvedOpen(o) ==
    \E k \in DOMAIN paired_orders :
        /\ Unresolved(paired_orders[k])
        /\ o \in {paired_orders[k].paxg_order_id, paired_orders[k].xaut_order_id}

\* C3: a level whose open Transaction is in flight with fewer than two legs
\* filled contributes nothing to confirmedNotional.  In a run without a
\* startup override, while every order submitted so far is a leg of such a
\* Transaction (so no level is confirmed), confirmedNotional is 0, also after
\* the position-opened notification of a first filled leg.
C3_NoDoubleCounting ==
    ( /\ initial_notional_override = 0
      /\ \A o \in DOMAIN orders : LegOfUnresolvedOpen(o) )
    => total_notional = 0

\* ------------------------------------------------------------------ C4
\* a step creates a Transaction: a tracker appears under a key, or the tracker
\* under a key is replaced by one for other orders
CreatesTransaction ==
    \/ \E k \in DOMAIN paired_orders' :
          k \notin DOMAIN paired_orders
          \/ paired_orders'[k].paxg_order_id # paired_orders[k].paxg_order_id
    \/ \E k \in DOMAIN paired_close_orders' :
          k \notin DOMAIN paired_close_orders
          \/ paired_close_orders'[k].paxg_order_id
                # paired_close_orders[k].paxg_order_id
          \/ paired_close_orders'[k].xaut_order_id
                # paired_close_orders[k].xaut_order_id
\* a step resolves a Transaction: a tracker goes away, or gets its second leg
ResolvesTransaction ==
    \/ \E k \in DOMAIN paired_orders :
          k \notin DOMAIN paired_orders'
          \/ (Unresolved(paired_orders[k]) /\ ~Unresolved(paired_orders'[k]))
    \/ \E k \in DOMAIN paired_close_orders :
          k \notin DOMAIN paired_close_orders'
          \/ (Unresolved(paired_close_orders[k])
                /\ ~Unresolved(paired_close_orders'[k]))

\* C4: confirmedNotional and pendingNotional change only in a step that
\* creates or resolves a Transaction (the startup sync and a reconciliation
\* run, which install confirmedNotional, set aside); a position notification
\* changes neither.
C4_LedgerChangesOnlyWithTransaction ==
    [][ (total_notional' # total_notional \/ pending_notional' # pending_notional)
        => \/ CreatesTransaction
           \/ ResolvesTransaction
           \/ positions_synced' # positions_synced
           \/ last_reconciliation' # last_reconciliation ]_vars

\* ------------------------------------------------------------------ C5
\* C5: confirmedNotional >= 0 and pendingNotional >= 0 in every reachable
\* state.
C5_CountersNonNegative == total_notional >= 0 /\ pending_notional >= 0

\* Two recovery paths have acted on one level (two close orders against the
\* same position, the close Transaction resolved by the close timeout check)
\* and the deduction found less than 2 * levelNotional in confirmedNotional.
C5_Witness ==
    /\ total_notional = 0
    /\ paired_orders = EmptyMap
    /\ paired_close_orders = EmptyMap
    /\ \E c1 \in DOMAIN orders, c2 \in DOMAIN orders :
          /\ c1 < c2
          /\ orders[c1].kind = "close" /\ orders[c2].kind = "close"
          /\ orders[c1].target = orders[c2].target
          /\ grid_state[orders[c1].level] = ClearedState

\* ------------------------------------------------------------------ C6
\* C6: each level has at most one open Transaction and at most one close
\* Transaction in flight.
C6_OneTransactionPerLevel ==
    \A l \in LevelSet :
        /\ Cardinality(OpenTransactions(l)) <= 1
        /\ Cardinality(CloseTransactions(l)) <= 1

\* A level with an open Transaction and a close Transaction in flight at
\* once: ticks have met the open condition and then a close condition of the
\* level while its orders were live.
C6_Witness ==
    \E l \in LevelSet :
        /\ Cardinality(OpenTransactions(l)) = 1
        /\ Cardinality(CloseTransactions(l)) = 1


\* ------------------------------------------------------------------ C7
\* the levels for which the pass from S to R submitted open orders
OpenedBy(S, R) ==
    {R.ords[o].level : o \in {i \in (Len(S.ords) + 1)..Len(R.ords) :
                                 R.ords[i].kind = "open"}}

\* C7: in the open pass of a decision tick an open Transaction is triggered
\* for a level exactly when the level is unoccupied, has no open Transaction
\* in flight, |spread| > level (strictly) and confirmedNotional +
\* pendingNotional (with what the lower levels opened in this pass have added)
\* + 2 * levelNotional <= maxTotalNotional; each opened level gets two orders
\* and adds 2 * levelNotional to the requested exposure.
C7_OpenPassTrigger ==
    \A q \in GridQuotes, d \in BOOLEAN :
        LET num == SpreadNum(q)
            den == SpreadDen
            S == ClosePass(Snapshot(d), 1, num, den)
            R == OpenPass(S, 1, num, den)
            opened == OpenedBy(S, R)
            Fits(l) == S.total + S.pending
                         + SumLevelNotional({m \in opened : m < l})
                         + 2 * GetLevelNotional(l) <= MaxTotalNotional
        IN /\ \A l \in LevelSet :
                l \in opened <=>
                    /\ S.gs[l].paxg_pos_id = None /\ S.gs[l].xaut_pos_id = None
                    /\ ~ \E k \in DOMAIN S.po : S.po[k].level = l
                    /\ Abs(num) * SpreadScale > l * den
                    /\ Fits(l)
           /\ Len(R.ords) = Len(S.ords) + 2 * Cardinality(opened)
           /\ R.pending = S.pending + SumLevelNotional(opened)
           /\ R.total = S.total

\* The example: from the empty grid a tick at spread 0.0025 has opened the
\* levels 0.0010 and 0.0020 and not 0.0030; the requested exposure is 400.
C7_Witness ==
    /\ paxg_bid = 10024 /\ paxg_ask = 10026
    /\ total_notional = 0
    /\ pending_notional = 400
    /\ Len(orders) = 4
    /\ \A o \in DOMAIN orders :
          orders[o].kind = "open" /\ orders[o].status = "submitted"
    /\ {orders[o].level : o \in DOMAIN orders} = {10, 20}
    /\ OpenTransactions(30) = {}

\* ------------------------------------------------------------------ C8
\* C8: if confirmedNotional + pendingNotional <= maxTotalNotional holds
\* before an open pass, it holds after the pass, however many levels the pass
\* opens.
C8_OpenPassKeepsCap ==
    \A q \in GridQuotes, d \in BOOLEAN :
        LET num == SpreadNum(q)
            den == SpreadDen
            S == ClosePass(Snapshot(d), 1, num, den)
            R == OpenPass(S, 1, num, den)
        IN S.total + S.pending <= MaxTotalNotional
              => R.total + R.pending <= MaxTotalNotional

\* A tick at spread 0.0035 has opened two levels and the cap has kept the
\* level 0.0030 out: its 200 on top of the 400 requested exceed 500.
C8_Witness ==
    /\ paxg_bid = 10034 /\ paxg_ask = 10036
    /\ Cardinality(DOMAIN paired_orders) = 2
    /\ total_notional + pending_notional = 400
    /\ total_notional + pending_notional + 2 * GetLevelNotional(30) > MaxTotalNotional
    /\ grid_state[30] = ClearedState
    /\ OpenTransactions(30) = {}

\* ------------------------------------------------------------------ C9
\* _close_grid applied to the levels of a sequence, in its order
RECURSIVE CloseEach(_, _)
CloseEach(S, levels) ==
    IF levels = <<>> THEN S
    ELSE CloseEach(CloseGrid(S, Head(levels)), Tail(levels))

\* the threshold of the level below l, 0 for the lowest level
ThresholdBelow(l) ==
    LET lower == {m \in LevelSet : m < l}
    IN IF lower = {} THEN 0 ELSE CHOOSE m \in lower : \A x \in lower : x <= m

\* C9: the close pass of a decision tick triggers a close for a level exactly
\* when the level is occupied and |spread| < prevLevel (0 for the lowest
\* level, the threshold of the level below otherwise), and every close order
\* of the tick is submitted before any open order of the tick.
C9_ClosePassTrigger ==
    \A q \in GridQuotes, d \in BOOLEAN :
        LET num == SpreadNum(q)
            den == SpreadDen
            S == Snapshot(d)
            due == {l \in LevelSet :
                       /\ S.gs[l].paxg_pos_id # None \/ S.gs[l].xaut_pos_id # None
                       /\ Abs(num) * SpreadScale < ThresholdBelow(l) * den}
            R == ProcessGrids(S, num, den)
            new == (Len(S.ords) + 1)..Len(R.ords)
        IN /\ ClosePass(S, 1, num, den) = CloseEach(S, SortedSeq(due))
           /\ \A i \in new, j \in new :
                 (R.ords[i].kind = "close" /\ R.ords[j].kind = "open") => i < j

\* The level 0.0030 was open and the level 0.0010 empty; a tick at spread
\* 0.0015 (< 0.0020) has submitted the two close orders of 0.0030 and, after
\* them, the two open orders of 0.0010.
C9_Witness ==
    /\ paxg_bid = 10014 /\ paxg_ask = 10016
    /\ Len(orders) = 6
    /\ orders[3].kind = "close" /\ orders[3].level = 30
    /\ orders[4].kind = "close" /\ orders[4].level = 30
    /\ orders[5].kind = "open" /\ orders[5].level = 10
    /\ orders[6].kind = "open" /\ orders[6].level = 10
    /\ CloseTransactions(30) # {}
    /\ OpenTransactions(10) # {}

\* ----------------------------------------------------------------- C10
\* C10: the step that processes the Filled event of the second leg of an open
\* Transaction moves 2 * levelNotional from pendingNotional to
\* confirmedNotional, leaves the level Open with both leg handles recorded and
\* deletes the Transaction; the Filled event of the first leg keeps the
\* Transaction, marking that leg filled, and moves no notional.  (Stated for
\* the runs in which no tracker was lost to a key collision.)
C10_SecondLegFill ==
    [][ \A o \in DOMAIN orders : \A k \in DOMAIN paired_orders :
          ( /\ NoLostTransaction
            /\ orders[o].status = "submitted" /\ orders'[o].status = "filled"
            /\ o \in DOMAIN working_orders
            /\ o \in {paired_orders[k].paxg_order_id, paired_orders[k].xaut_order_id} )
          => LET tracker == paired_orders[k]
                 level == tracker.level
                 isPaxg == o = tracker.paxg_order_id
                 other_filled == IF isPaxg THEN tracker.xaut_filled
                                 ELSE tracker.paxg_filled
             IN IF other_filled
                THEN /\ pending_notional' = pending_notional - 2 * GetLevelNotional(level)
                     /\ total_notional' = total_notional + 2 * GetLevelNotional(level)
                     /\ grid_state'[level].paxg_pos_id # None
                     /\ grid_state'[level].xaut_pos_id # None
                     /\ k \notin DOMAIN paired_orders'
                ELSE /\ k \in DOMAIN paired_orders'
                     /\ paired_orders'[k] =
                            IF isPaxg THEN [tracker EXCEPT !.paxg_filled = TRUE]
                            ELSE [tracker EXCEPT !.xaut_filled = TRUE]
                     /\ pending_notional' = pending_notional
                     /\ total_notional' = total_notional ]_vars

\* ----------------------------------------------------------------- C11
\* the legs of an open Transaction that are still at the venue
LiveLegs(k) ==
    {o \in {paired_orders[k].paxg_order_id, paired_orders[k].xaut_order_id} :
        OrderIsOpen(orders, o) /\ o \in DOMAIN working_orders}

\* the strategy after on_order_rejected for the order o
AfterRejected(S, o) ==
    HandleOrderFailure([S EXCEPT !.ords[o].status = "closed",
                                 !.wo = IF o \in DOMAIN @ THEN Del(@, o) ELSE @], o)

\* C11: a Rejected event for a leg of an open Transaction in flight: with the
\* other leg filled a corrective close order for that leg's position (if it
\* is still open) is submitted in the step and the leg's handle is cleared; with the other leg
\* still at the venue its cancel is requested; either way pendingNotional
\* goes down by 2 * levelNotional and the Transaction is deleted, and a
\* Rejected event for the other leg afterwards changes nothing.  (Stated for
\* the runs in which no tracker was lost to a key collision.)
C11_RejectRecovery ==
    (NoLostTransaction /\ pos_event = "none") =>
    \A k \in DOMAIN paired_orders : \A o \in LiveLegs(k) :
        LET tracker == paired_orders[k]
            level == tracker.level
            isPaxg == o = tracker.paxg_order_id
            other == IF isPaxg THEN tracker.xaut_order_id ELSE tracker.paxg_order_id
            other_filled == IF isPaxg THEN tracker.xaut_filled ELSE tracker.paxg_filled
            S == Snapshot(FALSE)
            R == AfterRejected(S, o)
            R2 == AfterRejected(R, other)
            n == Len(S.ords)
        IN /\ other_filled =>
                /\ PositionIsOpen(orders, other) =>
                      /\ Len(R.ords) = n + 1
                      /\ R.ords[n + 1].kind = "close"
                      /\ R.ords[n + 1].target = other
                /\ IF isPaxg THEN R.gs[level].xaut_pos_id = None
                   ELSE R.gs[level].paxg_pos_id = None
           /\ (~other_filled /\ OrderIsOpen(orders, other)) =>
                /\ other \in R.cancels
                /\ Len(R.ords) = n
           /\ R.pending = S.pending - 2 * GetLevelNotional(level)
           /\ k \notin DOMAIN R.po
           /\ R.total = S.total
           /\ R2.pending = R.pending /\ R2.total = R.total /\ R2.gs = R.gs
           /\ R2.po = R.po /\ R2.pc = R.pc /\ Len(R2.ords) = Len(R.ords)

\* ----------------------------------------------------------------- C12
\* the open trackers the timeout check finds timed out at the reading ct
TimedOut(S, ct) ==
    {k \in DOMAIN S.po : ~(ct - S.po[k].submit_time < TimeoutNs)}

\* C12: the timeout check over the open Transactions: one with elapsed time
\* >= orderTimeout and exactly one leg filled gets the unfilled leg cancelled
\* and a corrective close submitted for the filled leg's position (if it is
\* still open), one with neither leg filled gets both legs cancelled; each is
\* deleted and takes 2 * levelNotional out of pendingNotional; a younger
\* Transaction is left untouched.  (Stated for the runs in which no tracker
\* was lost to a key collision.)
C12_OpenTimeoutRecovery ==
    (NoLostTransaction /\ pos_event = "none") =>
    \A d \in BOOLEAN :
        LET S == Snapshot(d)
            ct == Clock(S)
            R == OpenTimeoutLoop(S, SortedSeq(DOMAIN S.po), ct)
            new == (Len(S.ords) + 1)..Len(R.ords)
            old == TimedOut(S, ct)
            due == {k \in old : Unresolved(S.po[k])}
        IN /\ \A k \in (DOMAIN S.po) \ old :
                  k \in DOMAIN R.po /\ R.po[k] = S.po[k]
           /\ \A k \in due :
                LET tracker == S.po[k]
                    p == tracker.paxg_order_id
                    x == tracker.xaut_order_id
                    filled == {o \in {p, x} : IF o = p THEN tracker.paxg_filled
                                                ELSE tracker.xaut_filled}
                IN /\ k \notin DOMAIN R.po
                   /\ \A o \in {p, x} \ filled :
                         OrderIsOpen(S.ords, o) => o \in R.cancels
                   /\ \A o \in filled :
                         PositionIsOpen(S.ords, o) =>
                            \E c \in new : R.ords[c].kind = "close"
                                           /\ R.ords[c].target = o
           /\ R.pending = S.pending
                            - SumLevelNotional({S.po[k].level : k \in due})
           /\ R.total = S.total

\* The timeout check has run on a Transaction with one leg filled: its
\* tracker is gone, the corrective close order for the filled leg is at the
\* venue and the leg's handle is cleared.
C12_Witness ==
    \E o \in DOMAIN orders, c \in DOMAIN orders :
        /\ orders[o].kind = "open" /\ orders[o].status = "filled"
        /\ orders[c].kind = "close" /\ orders[c].target = o
        /\ OpenTransactions(orders[o].level) = {}
        /\ CloseTransactions(orders[o].level) = {}
        /\ grid_state[orders[o].level] = ClearedState
        /\ total_notional + pending_notional >= 0

\* ----------------------------------------------------------------- C13
\* what a callback leaves behind, the cancel requests of the call aside
Outcome(S) ==
    [gs |-> S.gs, wo |-> S.wo, po |-> S.po, pc |-> S.pc, total |-> S.total,
     pending |-> S.pending, ords |-> S.ords]

\* _check_order_timeouts invoked again at once on what its first invocation
\* left, the clock showing the same reading or (d2) a later one
CheckedTwice(S, d2) ==
    CheckOrderTimeouts([CheckOrderTimeouts(S) EXCEPT !.cancels = {},
                                                     !.distinct = d2])

\* The second of two timeout checks with no event in between changes no
\* ledger counter, no occupancy, no Transaction, and submits and cancels no
\* order.
C13_SecondCheckChangesNothing ==
    pos_event = "none" =>
    \A d \in BOOLEAN, d2 \in BOOLEAN :
        LET S == Snapshot(d)
        IN /\ Outcome(CheckedTwice(S, d2)) = Outcome(CheckOrderTimeouts(S))
           /\ CheckedTwice(S, d2).cancels = {}

\* C13: the open timeout check is idempotent: it leaves a Transaction whose
\* two legs are filled as it is (and with it the ledger, the occupancy and the
\* orders), and a second check right after the first changes nothing.
\* (Stated for the runs in which no tracker was lost to a key collision.)
C13_TimeoutCheckIdempotent ==
    (NoLostTransaction /\ pos_event = "none") =>
    \A d \in BOOLEAN :
        LET S == Snapshot(d)
            R == CheckOrderTimeouts(S)
        IN /\ \A k \in DOMAIN S.po :
                 ~Unresolved(S.po[k]) => k \in DOMAIN R.po /\ R.po[k] = S.po[k]
           /\ C13_SecondCheckChangesNothing

\* ----------------------------------------------------------------- C14
\* the close orders of a close Transaction
CloseLegs(tracker) == {tracker.paxg_order_id, tracker.xaut_order_id} \ {None}

\* the close Transaction at key k is in flight for a level closed with both
\* its legs and, after the step, not all of its legs have reported filled
CloseUnfinished(k) ==
    /\ k \in DOMAIN paired_close_orders
    /\ Cardinality(CloseLegs(paired_close_orders[k])) = 2
    /\ \E o \in CloseLegs(paired_close_orders[k]) : orders'[o].status # "filled"

\* C14: from the trigger of a close Transaction for a level (closed with both
\* its legs) until both close orders have reported filled, the level stays
\* occupied and confirmedNotional is not reduced: not by the trigger, a single
\* close fill and its position notification, a timeout or a retry.  (Steps
\* that run the startup sync or a reconciliation, or that end the close
\* Transaction of another level, set aside.)
C14_CloseKeepsLevelUntilBothFilled ==
    [][ \A k \in DOMAIN paired_close_orders :
          CloseUnfinished(k) =>
            /\ GridHasPosition(grid_state'[paired_close_orders[k].level])
            /\ ( /\ positions_synced' = positions_synced
                 /\ last_reconciliation' = last_reconciliation
                 /\ \A j \in DOMAIN paired_close_orders :
                       paired_close_orders[j].level # paired_close_orders[k].level
                          => j \in DOMAIN paired_close_orders' )
               => total_notional' >= total_notional ]_vars

\* ----------------------------------------------------------------- C15
\* C15: the step that processes the Filled event of a close order of a close
\* Transaction: when the other close order has filled before, it clears the
\* level's occupancy and both handles, takes 2 * levelNotional (floored at 0)
\* out of confirmedNotional and deletes the close Transaction; when it is the
\* first of the two, it only marks its leg closed in the Transaction.
C15_CloseFill ==
    [][ \A o \in DOMAIN orders : \A k \in DOMAIN paired_close_orders :
          ( /\ orders[o].kind = "close"
            /\ orders[o].status = "submitted" /\ orders'[o].status = "filled"
            /\ Cardinality(CloseLegs(paired_close_orders[k])) = 2
            /\ o \in CloseLegs(paired_close_orders[k]) )
          => LET tracker == paired_close_orders[k]
                 level == tracker.level
                 isPaxg == o = tracker.paxg_order_id
                 other == IF isPaxg THEN tracker.xaut_order_id
                          ELSE tracker.paxg_order_id
             IN IF orders[other].status = "filled"
                THEN /\ grid_state'[level] = ClearedState
                     /\ total_notional'
                          = Max0(total_notional - 2 * GetLevelNotional(level))
                     /\ k \notin DOMAIN paired_close_orders'
                ELSE /\ k \in DOMAIN paired_close_orders'
                     /\ paired_close_orders'[k] =
                            IF isPaxg THEN [tracker EXCEPT !.paxg_filled = TRUE]
                            ELSE [tracker EXCEPT !.xaut_filled = TRUE] ]_vars

\* ----------------------------------------------------------------- C16
\* the PAXG quotes of the feed whose spread against the XAUT quote held is
\* beyond extreme_spread_stop
ExtremeQuotes ==
    {q \in PaxgQuotes :
        IsExtreme(MidPrice(q[1], q[2]) - MidPrice(xaut_bid, xaut_ask),
                  MidPrice(xaut_bid, xaut_ask))}

\* C16: a decision tick with |spread| > extremeSpreadStop leaves every level
\* that was occupied or had an open Transaction in flight with a close
\* Transaction in flight, and creates no open Transaction (and submits no
\* open order).  (Stated for the runs in which no tracker was lost to a key
\* collision.)
C16_ExtremeSpreadClosesAll ==
    ( /\ NoLostTransaction /\ positions_synced /\ pos_event = "none"
      /\ xaut_bid # None /\ xaut_ask # None ) =>
    \A q \in ExtremeQuotes, d \in BOOLEAN :
        LET S == Snapshot(d)
            R == DecisionTick(S, TRUE, initial_notional_override, None, None,
                              <<NoExposure, NoExposure>>,
                              MidPrice(q[1], q[2]) - MidPrice(xaut_bid, xaut_ask),
                              MidPrice(xaut_bid, xaut_ask), last_reconciliation)[1]
        IN /\ \A l \in LevelSet :
                 (GridHasPosition(S.gs[l]) \/ GridHasPendingOrders(S, l))
                    => \E k \in DOMAIN R.pc : R.pc[k].level = l
           /\ R.po = S.po
           /\ \A i \in (Len(S.ords) + 1)..Len(R.ords) : R.ords[i].kind # "open"

\* ----------------------------------------------------------------- C17
\* nothing has happened yet: no order, no Transaction, ledger and occupancy
\* as on_start left them
Pristine ==
    /\ orders = <<>>
    /\ working_orders = EmptyMap
    /\ paired_orders = EmptyMap
    /\ paired_close_orders = EmptyMap
    /\ total_notional = 0
    /\ pending_notional = 0
    /\ grid_state = [l \in LevelSet |-> ClearedState]

\* the placeholder handles startup sync writes
Placeholder(state) ==
    state.paxg_pos_id \in {MANUAL_OVERRIDE, DETECTED}
       \/ state.xaut_pos_id \in {MANUAL_OVERRIDE, DETECTED}

\* both instruments have a quote
BothQuoted ==
    paxg_bid # None /\ paxg_ask # None /\ xaut_bid # None /\ xaut_ask # None

\* C17: startup sync runs exactly once, in the first quote tick at which both
\* instruments have a quote and the settle delay has elapsed since start:
\* until it has run nothing has happened (no order, no Transaction, ledger and
\* occupancy unchanged); the flag never goes back and placeholder handles
\* appear in no later step; and it runs before the passes of its tick: the
\* level it pre-marks is not opened by that tick.
C17_StartupSyncOnce ==
    [][ /\ ~positions_synced' => Pristine'
        /\ positions_synced => positions_synced'
        /\ (~positions_synced /\ positions_synced') =>
              /\ BothQuoted'
              /\ now - start_time >= StartupDelaySec
        /\ ( /\ quoteVars' # quoteVars
             /\ BothQuoted'
             /\ now - start_time >= StartupDelaySec ) => positions_synced'
        /\ (\E l \in LevelSet : Placeholder(grid_state'[l]) /\ ~Placeholder(grid_state[l]))
              => ~positions_synced /\ positions_synced'
        /\ (~positions_synced /\ positions_synced'
              /\ initial_notional_override >= 2 * BaseNotionalPerLevel)
              => \A o \in DOMAIN orders' : orders'[o].level # LevelsSorted[1] ]_vars

\* The sync of a run with override 250 has pre-marked the lowest level and
\* the open pass of the same tick (spread 0.0025) has opened the level 0.0020
\* only.
C17_Witness ==
    /\ positions_synced
    /\ initial_notional_override = 250
    /\ Placeholder(grid_state[10])
    /\ Len(orders) = 2
    /\ \A o \in DOMAIN orders : orders[o].level = 20 /\ orders[o].status = "submitted"
    /\ OpenTransactions(10) = {}

\* ----------------------------------------------------------------- C18
\* The detected notional as the priority order gives it: the override if it
\* is > 0, else the open-position notionals if a position was found, else the
\* net exposures, else zero.
DetectedNotional(override, paxg_pos, xaut_pos, paxg_exposure, xaut_exposure) ==
    IF override > 0 THEN override
    ELSE IF paxg_pos # None \/ xaut_pos # None
         THEN PositionNotional(orders, paxg_pos) + PositionNotional(orders, xaut_pos)
    ELSE (IF paxg_exposure = NoExposure THEN 0 ELSE paxg_exposure)
         + (IF xaut_exposure = NoExposure THEN 0 ELSE xaut_exposure)

\* startup sync applied to the state a first decision tick finds
Synced(paxg_pos, xaut_pos, paxg_exposure, xaut_exposure) ==
    SyncExistingPositions(Snapshot(FALSE), initial_notional_override,
                          paxg_pos, PositionNotional(orders, paxg_pos),
                          xaut_pos, PositionNotional(orders, xaut_pos),
                          paxg_exposure, xaut_exposure)

\* the n lowest levels
LowestLevels(n) ==
    {LevelsSorted[i] : i \in {j \in 1..Len(LevelsSorted) : j <= n}}

\* what startup sync marks and installs, the handles aside: the
\* min(floor(D / (2 * baseNotionalPerLevel)), number of levels) lowest levels
\* and confirmedNotional = D; nothing for D = 0
MarksLowest(R, D) ==
    /\ {l \in LevelSet : R.gs[l] # ClearedState} = LowestLevels(D \div (2 * BaseNotionalPerLevel))
    /\ R.total = D
    /\ R.pending = 0 /\ R.ords = orders /\ R.po = EmptyMap /\ R.pc = EmptyMap

C19_SyncSourcePriority ==
    ~positions_synced =>
    \A paxg_pos \in LastSeen(orders, "PAXG"), xaut_pos \in LastSeen(orders, "XAUT"),
       pe \in ExposureValues, xe \in ExposureValues :
        LET R == Synced(paxg_pos, xaut_pos, pe, xe)
            found == paxg_pos # None \/ xaut_pos # None
            exposure == (IF pe = NoExposure THEN 0 ELSE pe)
                        + (IF xe = NoExposure THEN 0 ELSE xe)
        IN IF initial_notional_override > 0
           THEN /\ R.total = initial_notional_override
                /\ R = Synced(None, None, NoExposure, NoExposure)
           ELSE IF found
           THEN /\ R.total = PositionNotional(orders, paxg_pos)
                               + PositionNotional(orders, xaut_pos)
                /\ R = Synced(paxg_pos, xaut_pos, NoExposure, NoExposure)
           ELSE IF exposure > 0
           THEN R.total = exposure
           ELSE R = Snapshot(FALSE)

\* The third source was used: no override, no position in the cache, and the
\* sync has marked the lowest level from the net exposures.
C19_Witness ==
    /\ positions_synced
    /\ initial_notional_override = 0
    /\ PositionsOpen(orders, "PAXG") = {} /\ PositionsOpen(orders, "XAUT") = {}
    /\ grid_state[LevelsSorted[1]] = [paxg_pos_id |-> DETECTED, xaut_pos_id |-> DETECTED]

\* ----------------------------------------------------------------- C20
\* actualTotal: the notional of the positions open at the venue
ActualTotal ==
    SumNotional(orders, PositionsOpen(orders, "PAXG") \cup PositionsOpen(orders, "XAUT"))

\* C20: a reconciliation run with |actualTotal - confirmedNotional| >
\* driftThreshold sets confirmedNotional to actualTotal; with the difference
\* at or below the threshold it leaves confirmedNotional as it is; it changes
\* nothing else.
C20_ReconcileDrift ==
    \A d \in BOOLEAN :
        LET S == Snapshot(d)
            R == ReconcilePositions(S)
        IN /\ R.total = IF Abs(ActualTotal - total_notional) > DriftThreshold
                        THEN ActualTotal ELSE total_notional
           /\ R = [S EXCEPT !.total = R.total]

\* The example: tracked 1000 (installed by the startup sync of a run with
\* override 1000), actual 700, and a reconciliation has set confirmedNotional
\* to 700.
C20_Witness ==
    /\ initial_notional_override = 1000
    /\ positions_synced
    /\ last_reconciliation > 0
    /\ ActualTotal = 700
    /\ total_notional = 700

\* ----------------------------------------------------------------- C21
\* notionalA / notionalB: the open notional of each instrument at the venue
NotionalOf(inst) == SumNotional(orders, PositionsOpen(orders, inst))

\* the relative imbalance between the two instruments exceeds 20%
Imbalanced ==
    /\ ActualTotal > 0
    /\ 5 * Abs(NotionalOf("PAXG") - NotionalOf("XAUT")) > ActualTotal

\* C21: a reconciliation run in which actualTotal > 0 and the relative
\* imbalance |notionalA - notionalB| / actualTotal exceeds 20% raises the
\* critical imbalance alert.
C21_ImbalanceAlert ==
    \A d \in BOOLEAN :
        (positions_synced /\ Imbalanced) => ImbalanceAlert(Snapshot(d))

\* a reconciliation run that does raise the alert: imbalance with drift
C21_AlertWithDrift ==
    /\ positions_synced
    /\ Imbalanced
    /\ ImbalanceAlert(Snapshot(FALSE))

\* ----------------------------------------------------------------- C22
\* _close_position produces no order for the position handle h
NoCloseOrder(S, h) == h # None /\ ClosePosition(S, h)[2] = None

\* a close triggered for level l goes as far as the submissions and at least
\* one recorded leg gets no close order
CloseSubmissionFails(S, l) ==
    /\ GridHasPosition(S.gs[l])
    /\ ~ \E k \in DOMAIN S.pc : S.pc[k].level = l
    /\ \/ NoCloseOrder(S, S.gs[l].paxg_pos_id)
       \/ NoCloseOrder(S, S.gs[l].xaut_pos_id)

\* C22: when a close is triggered for an occupied level and no close order
\* is produced for a leg, the level's recorded leg handles are left as they
\* are, so the level is still occupied at the next cycle.
C22_CloseFailureKeepsOccupancy ==
    \A d \in BOOLEAN, l \in LevelSet :
        LET S == Snapshot(d)
            R == CloseGrid(S, l)
        IN (positions_synced /\ pos_event = "none" /\ CloseSubmissionFails(S, l))
           => /\ R.gs[l] = S.gs[l]
              /\ GridHasPosition(R.gs[l])

\* ----------------------------------------------------------------- C23
\* the spread the stored quotes give, as numerator and denominator
StoredNum == MidPrice(paxg_bid, paxg_ask) - MidPrice(xaut_bid, xaut_ask)
StoredDen == MidPrice(xaut_bid, xaut_ask)

\* |spread| <= extremeSpreadStop for the stored quotes
WithinExtremeStop == Abs(StoredNum) * SpreadScale <= ExtremeSpreadStop * StoredDen

\* the normal cycle of a tick at spread num / den: close pass, open pass,
\* reconciliation when due, timeout checks
NormalCycle(S, num, den) ==
    LET S2 == ProcessGrids(S, num, den)
        S3 == IF ShouldReconcile(S2, last_reconciliation)
              THEN ReconcilePositions(S2) ELSE S2
    IN CheckOrderTimeouts(S3)

Aged(tracker) == now * SubRes - tracker.submit_time >= TimeoutNs

\* the state a PAXG tick with quote q leaves, the startup sync done before
AfterTick(S, q) ==
    DecisionTick(S, TRUE, initial_notional_override, None, None,
                 <<NoExposure, NoExposure>>,
                 MidPrice(q[1], q[2]) - MidPrice(xaut_bid, xaut_ask),
                 MidPrice(xaut_bid, xaut_ask), last_reconciliation)[1]

\* C24: every quote tick processed after the startup sync with both quotes
\* valid runs the timeout checks, whatever the spread: an open Transaction
\* whose age has reached orderTimeout is gone after the tick, a close
\* Transaction of that age is gone or has a fresh submit time.
C24_TimeoutsPolledEveryTick ==
    \A q \in PaxgQuotes, d \in BOOLEAN :
        LET S == Snapshot(d)
            R == AfterTick(S, q)
        IN ( /\ NoLostTransaction
             /\ positions_synced
             /\ pos_event = "none"
             /\ xaut_bid # None /\ xaut_ask # None )
           => /\ \A k \in DOMAIN paired_orders :
                    Aged(paired_orders[k]) => k \notin DOMAIN R.po
              /\ \A k \in DOMAIN paired_close_orders :
                    Aged(paired_close_orders[k])
                       => \/ k \notin DOMAIN R.pc
                          \/ R.pc[k].submit_time # paired_close_orders[k].submit_time

\* the timeout check at work: an aged open Transaction and a tick at a
\* spread that is not extreme, which removes it
C24_Witness ==
    /\ positions_synced /\ pos_event = "none" /\ NoLostTransaction
    /\ xaut_bid # None
    /\ \E k \in DOMAIN paired_orders :
          /\ Aged(paired_orders[k])
          /\ k \notin DOMAIN AfterTick(Snapshot(FALSE), <<10024, 10026>>).po

\* ----------------------------------------------------------------- C25
\* level l has a close Transaction whose age has reached the timeout and
\* whose close orders have all been filled by the venue
SettledCloseInFlight(l) ==
    \E k \in CloseTransactions(l) :
        /\ Aged(paired_close_orders[k])
        /\ \A o \in CloseLegs(paired_close_orders[k]) : orders[o].status = "filled"

\* C25: every close Transaction is eventually destroyed.  With quote ticks
\* arriving and its close orders filled by the venue, a close Transaction
\* that has reached the timeout is eventually deleted: the level has no
\* close Transaction in flight any more.
C25_CloseTransactionsEnd ==
    \A l \in LevelSet : SettledCloseInFlight(l) ~> (CloseTransactions(l) = {})

\* ----------------------------------------------------------------- C26
\* the recorded handle and the tracker's close order and flag for a leg
HandleOf(S, l, inst) ==
    IF inst = "PAXG" THEN S.gs[l].paxg_pos_id ELSE S.gs[l].xaut_pos_id
CloseOrderOf(tracker, inst) ==
    IF inst = "PAXG" THEN tracker.paxg_order_id ELSE tracker.xaut_order_id
FlagOf(tracker, inst) ==
    IF inst = "PAXG" THEN tracker.paxg_filled ELSE tracker.xaut_filled

\* the leg of the close tracker at key k is closed / is still open
LegClosed(S, k, inst) ==
    \/ FlagOf(S.pc[k], inst)
    \/ ~PositionIsOpen(S.ords, HandleOf(S, S.pc[k].level, inst))
LegStillOpen(S, k, inst) ==
    /\ ~FlagOf(S.pc[k], inst)
    /\ PositionIsOpen(S.ords, HandleOf(S, S.pc[k].level, inst))

\* the other instrument
Other(inst) == IF inst = "PAXG" THEN "XAUT" ELSE "PAXG"

\* the orders a callback has submitted
NewOrders(S, R) == (Len(S.ords) + 1)..Len(R.ords)

NeitherLegClosed(S, k, ct) ==
    /\ ct - S.pc[k].submit_time >= TimeoutNs
    /\ LegStillOpen(S, k, "PAXG")
    /\ LegStillOpen(S, k, "XAUT")

\* what the re-triggered close leaves for level l: the level occupied as
\* before, one close Transaction in flight, new close orders for both legs,
\* a submit time not before the check
Retriggered(S, R, l, ct) ==
    /\ R.gs[l] = S.gs[l]
    /\ Cardinality({j \in DOMAIN R.pc : R.pc[j].level = l}) = 1
    /\ \A j \in DOMAIN R.pc :
          R.pc[j].level = l
             => /\ R.pc[j].submit_time >= ct
                /\ \A inst \in {"PAXG", "XAUT"} :
                      /\ CloseOrderOf(R.pc[j], inst) \in NewOrders(S, R)
                      /\ R.ords[CloseOrderOf(R.pc[j], inst)].target = HandleOf(S, l, inst)

\* C27: when the close timeout check finds a close Transaction of age >=
\* orderTimeout with neither leg closed, it cancels both stale close orders
\* and re-triggers the close of the level: at the end of the check the level
\* is still occupied and has exactly one close Transaction in flight, with a
\* fresh submit time and new close orders for both legs.
C27_CloseTimeoutNeitherLeg ==
    \A d \in BOOLEAN :
        LET S == Snapshot(d)
            ct == Clock(S)
            R == CheckCloseOrderTimeouts(S)
        IN pos_event = "none" =>
           \A k \in DOMAIN paired_close_orders :
              NeitherLegClosed(S, k, ct)
                 => /\ \A o \in CloseLegs(paired_close_orders[k]) :
                          OrderIsOpen(orders, o) => o \in R.cancels
                    /\ Retriggered(S, R, paired_close_orders[k].level, ct)

\* the same for the loop body alone, the other trackers left aside
C27_LoopBody ==
    \A d \in BOOLEAN :
        LET S == Snapshot(d)
            ct == Clock(S)
        IN pos_event = "none" =>
           \A k \in DOMAIN paired_close_orders :
              NeitherLegClosed(S, k, ct)
                 => Retriggered(S, CloseTimeoutOne(S, k, ct),
                                paired_close_orders[k].level, ct)

\* the retry at work: an aged close Transaction with neither leg closed,
\* which the check replaces by a fresh one for the level
C27_Witness ==
    /\ pos_event = "none"
    /\ LET S == Snapshot(TRUE)
       IN \E k \in DOMAIN paired_close_orders :
             /\ NeitherLegClosed(S, k, Clock(S))
             /\ Retriggered(S, CheckCloseOrderTimeouts(S),
                            paired_close_orders[k].level, Clock(S))

\* ----------------------------------------------------------------- C28
\* the orders of the cache of R that are at the venue and not yet terminal
OpenOrders(R) == {o \in 1..Len(R.ords) : R.ords[o].status = "submitted"}

\* every cancel request of the call that returned R is for an open order
CancelsOnlyOpen(R) == R.cancels \subseteq OpenOrders(R)

\* C28: whatever the state, the operations that cancel (the recovery after a
\* Rejected event, the open timeout check, the close timeout check, the stop)
\* request a cancel only for orders that are still open: none for an order
\* that is filled, rejected or cancelled.
C28_CancelOnlyOpenOrders ==
    pos_event = "none" =>
    \A d \in BOOLEAN :
        LET S == Snapshot(d)
        IN /\ \A o \in OpenOrders(S) : CancelsOnlyOpen(AfterRejected(S, o))
           /\ CancelsOnlyOpen(CheckOrderTimeouts(S))
           /\ CancelsOnlyOpen(CheckCloseOrderTimeouts(S))
           /\ CancelsOnlyOpen(OnStop(S))

\* A close Transaction has timed out with one of its orders filled and the
\* other still at the venue: the timeout check requests the cancel of the
\* open one only, while the strategy tracks an open order a stop would cancel.
C28_Witness ==
    /\ pos_event = "none"
    /\ working_orders # EmptyMap
    /\ \E k \in DOMAIN paired_close_orders :
          LET tracker == paired_close_orders[k]
              R == CheckCloseOrderTimeouts(Snapshot(TRUE))
          IN /\ Aged(tracker)
             /\ \E f \in CloseLegs(tracker), g \in CloseLegs(tracker) :
                   /\ orders[f].status = "filled"
                   /\ orders[g].status = "submitted"
                   /\ g \in R.cancels
                   /\ f \notin R.cancels

\* ----------------------------------------------------------------- C29
\* C29: a reconciliation run, whatever the state it runs in, submits no order
\* and requests no cancel and leaves pending_notional, every level's handles
\* and every open and close Transaction as they are: of the strategy's fields
\* it can change total_notional only (the tick that runs it stamps the time
\* of the last reconciliation).
C29_ReconcileFrame ==
    \A d \in BOOLEAN :
        LET S == Snapshot(d)
            R == ReconcilePositions(S)
        IN /\ R.ords = S.ords /\ R.cancels = S.cancels
           /\ R.pending = S.pending /\ R.gs = S.gs
           /\ R.po = S.po /\ R.pc = S.pc /\ R.wo = S.wo
           /\ R = [S EXCEPT !.total = R.total]

\* A reconciliation would find drift and rewrite total_notional while an open
\* Transaction is in flight and pending_notional is not zero.
C29_Witness ==
    /\ positions_synced /\ pos_event = "none"
    /\ paired_orders # EmptyMap /\ pending_notional > 0
    /\ Drifted(Abs(ActualTotal - total_notional))
    /\ ReconcilePositions(Snapshot(TRUE)).total # total_notional

\* ----------------------------------------------------------------- C30
\* C30: a step that ends with an instrument still unquoted has produced no
\* spread, has not run the startup sync, has submitted no order and has left
\* ledger, occupancy and Transactions as they were; a quote tick records the
\* bid/ask of its instrument and leaves the other instrument's quote alone;
\* and a quote, once set, is never unset: passing time does not touch it.
C30_QuotesOnlyUntilBothQuoted ==
    [][ /\ ~BothQuoted' =>
              /\ CalcSpread(paxg_bid', paxg_ask', xaut_bid', xaut_ask') = None
              /\ ~positions_synced'
              /\ orders' = <<>>
              /\ UNCHANGED <<grid_state, working_orders, paired_orders,
                             paired_close_orders, total_notional, pending_notional,
                             last_reconciliation>>
        /\ quoteVars' # quoteVars =>
              \/ /\ <<paxg_bid', paxg_ask'>> \in PaxgQuotes
                 /\ xaut_bid' = xaut_bid /\ xaut_ask' = xaut_ask
              \/ /\ <<xaut_bid', xaut_ask'>> \in XautQuotes
                 /\ paxg_bid' = paxg_bid /\ paxg_ask' = paxg_ask
        /\ \A i \in 1..4 : quoteVars[i] # None => quoteVars'[i] # None
        /\ now' # now => quoteVars' = quoteVars ]_vars

\* PAXG has ticked and XAUT has not, and the startup delay is over: the tick
\* recorded the PAXG quote and nothing else has happened.
C30_Witness ==
    /\ paxg_bid # None /\ paxg_ask # None
    /\ xaut_bid = None /\ xaut_ask = None
    /\ now - start_time >= StartupDelaySec
    /\ ~positions_synced
    /\ Pristine

\* ----------------------------------------------------------------- C31
\* the order side _open_grid sets in the branch that sets the leg tag
LegSide(tag) == IF tag \in {"PAXG_SHORT", "XAUT_SHORT"} THEN "SELL" ELSE "BUY"

\* the open Transactions the pass from S to R created
CreatedOpen(S, R) == {k \in DOMAIN R.po : k \notin DOMAIN S.po \/ R.po[k] # S.po[k]}

\* C31: every open Transaction a decision pass creates has one order for
\* PAXG and one for XAUT, on opposite sides chosen by the sign of the spread
\* of the tick: spread > 0 sells PAXG and buys XAUT, spread < 0 buys PAXG and
\* sells XAUT; and every open Transaction in flight has opposite sides.  (All
\* orders of the model are the market orders of order_factory.market.)
C31_OppositeSidesBySpreadSign ==
    /\ \A k \in DOMAIN paired_orders :
          LegSide(paired_orders[k].paxg_leg) # LegSide(paired_orders[k].xaut_leg)
    /\ \A q \in GridQuotes, d \in BOOLEAN :
          LET num == SpreadNum(q)
              S == Snapshot(d)
              R == ProcessGrids(S, num, SpreadDen)
          IN \A k \in CreatedOpen(S, R) :
                LET tracker == R.po[k]
                    p == R.ords[tracker.paxg_order_id]
                    x == R.ords[tracker.xaut_order_id]
                IN /\ tracker.paxg_order_id > Len(S.ords)
                   /\ tracker.xaut_order_id > Len(S.ords)
                   /\ p.kind = "open" /\ p.inst = "PAXG" /\ p.level = tracker.level
                   /\ x.kind = "open" /\ x.inst = "XAUT" /\ x.level = tracker.level
                   /\ R.wo[tracker.paxg_order_id] = <<tracker.level, tracker.paxg_leg>>
                   /\ R.wo[tracker.xaut_order_id] = <<tracker.level, tracker.xaut_leg>>
                   /\ num > 0 => /\ LegSide(tracker.paxg_leg) = "SELL"
                                 /\ LegSide(tracker.xaut_leg) = "BUY"
                   /\ num < 0 => /\ LegSide(tracker.paxg_leg) = "BUY"
                                 /\ LegSide(tracker.xaut_leg) = "SELL"
                   /\ num # 0

\* A tick at spread -0.0025 has opened a level: PAXG bought, XAUT sold.
C31_Witness ==
    /\ paxg_bid = 9974 /\ paxg_ask = 9976
    /\ \E k \in DOMAIN paired_orders :
          /\ paired_orders[k].paxg_leg = "PAXG_LONG"
          /\ paired_orders[k].xaut_leg = "XAUT_SHORT"
          /\ orders[paired_orders[k].paxg_order_id].status = "submitted"

\* ----------------------------------------------------------------- C32
\* weight mappings (percent) to size a level with: none, 0.4 for the lowest
\* level, 2.5 for the highest
WeightMaps == {[l \in {} |-> 100], [l \in {10} |-> 40], [l \in {10, 30} |-> IF l = 10 THEN 40 ELSE 250]}

\* C32: triggering an open for a level, whatever the state, submits exactly
\* two orders, one per instrument, records one new open Transaction for the
\* level under the current clock reading, with that reading as submit time
\* and both filled flags false, and adds 2 * levelNotional(level) to
\* pending_notional; total_notional, every level's handles and the close
\* Transactions are unchanged.  levelNotional(level) is base_notional_per_level
\* times the level's weight, 1.0 for a level without one.
C32_OpenTriggerEffect ==
    /\ \A w \in WeightMaps, l \in LevelSet :
          100 * LevelNotional(w, l)
             = BaseNotionalPerLevel * (IF l \in DOMAIN w THEN w[l] ELSE 100)
    /\ \A d \in BOOLEAN, level \in LevelSet, positive \in BOOLEAN :
          LET S == Snapshot(d)
              R == OpenGrid(S, level, positive)
              n == Len(S.ords)
              t == Clock(S)
          IN /\ Len(R.ords) = n + 2
             /\ {R.ords[n + 1].inst, R.ords[n + 2].inst} = {"PAXG", "XAUT"}
             /\ \A o \in {n + 1, n + 2} :
                   /\ R.ords[o].kind = "open" /\ R.ords[o].level = level
                   /\ R.ords[o].status = "submitted"
             /\ \A o \in 1..n : R.ords[o] = S.ords[o]
             /\ DOMAIN R.po = (DOMAIN S.po) \cup {t}
             /\ R.po[t].level = level /\ R.po[t].submit_time = t
             /\ ~R.po[t].paxg_filled /\ ~R.po[t].xaut_filled
             /\ {R.po[t].paxg_order_id, R.po[t].xaut_order_id} = {n + 1, n + 2}
             /\ R.pending = S.pending + 2 * LevelNotional(PositionWeights, level)
             /\ R.total = S.total /\ R.gs = S.gs /\ R.pc = S.pc
             /\ R.cancels = S.cancels

\* An open has been triggered for the level 0.0020 alone, from a grid whose
\* lowest level is open: two orders at the venue, one Transaction with no
\* leg filled, 200 requested, 200 confirmed.
C32_Witness ==
    /\ OpenTransactions(20) # {}
    /\ \A k \in OpenTransactions(20) :
          ~paired_orders[k].paxg_filled /\ ~paired_orders[k].xaut_filled
    /\ pending_notional = 200 /\ total_notional = 200
    /\ GridHasPosition(grid_state[10]) /\ ~GridHasPosition(grid_state[20])

OpenOrdersOf(ords, l) ==
    {o \in 1..Len(ords) : ords[o].kind = "open" /\ ords[o].level = l}

\* the open Transactions of level l with both legs filled: the fill handler
\* has moved their 2 * levelNotional from pending to total_notional
BothFilledOpen(l) ==
    {k \in OpenTransactions(l) : paired_orders[k].paxg_filled /\ paired_orders[k].xaut_filled}

\* no close order was ever submitted for a position of level l
NeverClosed(ords, l) ==
    ~ \E c \in 1..Len(ords) : ords[c].kind = "close" /\ ords[c].level = l

\* the strategy after the timeout check of one tick and the grid passes of
\* the next tick, at the spread of the PAXG quote q
TimeoutThenPasses(S, q) ==
    LET R == [CheckOrderTimeouts(S) EXCEPT !.cancels = {}]
    IN ProcessGrids(R, MidPrice(q[1], q[2]) - MidPrice(xaut_bid, xaut_ask), MidPrice(xaut_bid, xaut_ask))

\* C34: a level whose open Transaction has both legs filled and counted gets
\* no further open Transaction before a close of the level: with the
\* both-filled Transaction still in the map (a handle was not resolved at
\* fill time), the timeout check that removes it and the passes of the next
\* tick submit no new open order for the level unless they close it.
\* (Stated for the runs in which no tracker was lost to a key collision.)
C34_NoReopenOfFilledLevel ==
    (NoLostTransaction /\ pos_event = "none" /\ positions_synced) =>
    \A l \in LevelSet, q \in PaxgQuotes, d \in BOOLEAN :
        LET R == TimeoutThenPasses(Snapshot(d), q)
        IN (BothFilledOpen(l) # {} /\ NeverClosed(R.ords, l))
              => OpenOrdersOf(R.ords, l) = OpenOrdersOf(orders, l)

\* ----------------------------------------------------------------- C35
\* C35: a step that takes a level with both leg handles recorded to Empty
\* (both handles cleared) takes 2 * levelNotional(level) out of
\* total_notional, floored at 0, in the same step.
C35_ClearReducesConfirmed ==
    [][ \A l \in LevelSet :
          (BothHandles(l) /\ grid_state'[l] = ClearedState)
             => total_notional' = Max0(total_notional - 2 * GetLevelNotional(l)) ]_vars

\* ----------------------------------------------------------------- C36
\* the levels for which the pass from S to R submitted close orders
ClosedBy(S, R) ==
    {R.ords[o].level : o \in {i \in (Len(S.ords) + 1)..Len(R.ords) :
                                 R.ords[i].kind = "close"}}

\* C36: a decision pass, whatever the clock readings of its callback, leaves
\* every Transaction that was in flight before it in its map under its key,
\* and every level it opens or closes has its new Transaction in the map at
\* the end of the pass: creating a Transaction replaces no other one.
C36_CreationNeverReplaces ==
    \A q \in GridQuotes, d \in BOOLEAN :
        LET S == Snapshot(d)
            R == ProcessGrids(S, SpreadNum(q), SpreadDen)
        IN /\ \A k \in DOMAIN S.po : k \in DOMAIN R.po /\ R.po[k] = S.po[k]
           /\ \A k \in DOMAIN S.pc : k \in DOMAIN R.pc /\ R.pc[k] = S.pc[k]
           /\ \A l \in OpenedBy(S, R) : \E k \in DOMAIN R.po : R.po[k].level = l
           /\ \A l \in ClosedBy(S, R) : \E k \in DOMAIN R.pc : R.pc[k].level = l

\* Two levels have been opened by one pass and both open Transactions are in
\* the map: the clock readings of that callback differed.
C36_TwoTransactionsKept ==
    /\ OpenTransactions(LevelsSorted[1]) # {}
    /\ OpenTransactions(LevelsSorted[2]) # {}
    /\ pending_notional = SumLevelNotional({LevelsSorted[1], LevelsSorted[2]})

\* ----------------------------------------------------------------- C37
\* the levels with an open and a close Transaction in flight in the state R
OpenAndClosing(R) ==
    {l \in LevelSet : /\ \E k \in DOMAIN R.po : R.po[k].level = l
                      /\ \E j \in DOMAIN R.pc : R.pc[j].level = l}

\* C37: the grid passes of a tick that is not a kill-switch tick bring no
\* level to have an open Transaction and a close Transaction in flight at
\* once; in particular the close pass triggers no close for a level whose
\* open Transaction is in flight with one leg filled.
C37_NoCloseWhileOpening ==
    (positions_synced /\ pos_event = "none") =>
    \A q \in PaxgQuotes, d \in BOOLEAN :
        LET num == MidPrice(q[1], q[2]) - MidPrice(xaut_bid, xaut_ask)
            den == MidPrice(xaut_bid, xaut_ask)
            S == Snapshot(d)
            R == ProcessGrids(S, num, den)
        IN Abs(num) * SpreadScale < ExtremeSpreadStop * den
              => /\ OpenAndClosing(R) \subseteq OpenAndClosing(S)
                 /\ \A l \in ClosedBy(S, R) : UnresolvedOpen(l) = {}

\* ----------------------------------------------------------------- C38
\* C38: a step in which a reconciliation runs (the stamp of the last
\* reconciliation moves) comes no earlier than one reconciliation interval
\* after the start and no earlier than one interval after the reconciliation
\* before it, and it is not the step of the startup sync.
C38_ReconcileNotBeforeInterval ==
    [][ last_reconciliation' # last_reconciliation =>
          /\ last_reconciliation' - start_time * SubRes >= ReconciliationInterval * SubRes
          /\ last_reconciliation' - last_reconciliation >= ReconciliationInterval * SubRes
          /\ ~(~positions_synced /\ positions_synced') ]_vars

\* The startup sync of a run with override 250 has pre-marked the lowest
\* level, and the reconciliation of the same tick has set total_notional to
\* the 0 the cache reports.
C38_SyncOverwritten ==
    /\ initial_notional_override = 250
    /\ positions_synced
    /\ Placeholder(grid_state[LevelsSorted[1]])
    /\ total_notional = 0
    /\ orders = <<>>
    /\ last_reconciliation > 0

\* ----------------------------------------------------------------- C39
\* PAXG quotes to try the close pass with: the spreads of GridQuotes and the
\* spread 0
ClosePassQuotes == GridQuotes \cup {<<9999, 10001>>}

\* C39: for every spread the close pass leaves the lowest level alone (no
\* close order, no close Transaction, handles as they were); and a step that
\* creates a close Transaction for the lowest level is a kill-switch tick, or
\* the timeout retry of a close Transaction the level already had.
C39_LowestLevelNeverClosedByPass ==
    [][ /\ \A q \in ClosePassQuotes, d \in BOOLEAN :
              LET S == Snapshot(d)
                  R == ClosePass(S, 1, MidPrice(q[1], q[2]) - MidPrice(xaut_bid, xaut_ask), MidPrice(xaut_bid, xaut_ask))
              IN /\ LevelsSorted[1] \notin ClosedBy(S, R)
                 /\ R.gs[LevelsSorted[1]] = S.gs[LevelsSorted[1]]
                 /\ \A k \in DOMAIN R.pc :
                       R.pc[k].level = LevelsSorted[1] => k \in DOMAIN S.pc /\ R.pc[k] = S.pc[k]
        /\ (CloseTransactions(LevelsSorted[1])' # {} /\ CloseTransactions(LevelsSorted[1]) = {})
              => Abs(StoredNum') * SpreadScale > ExtremeSpreadStop * StoredDen' ]_vars

\* The lowest and the highest level were open; a tick at spread 0.0008, below
\* the lowest threshold, has triggered the close of the highest level and
\* left the lowest one open with no close Transaction.
C39_Witness ==
    /\ paxg_bid = 10007 /\ paxg_ask = 10009
    /\ BothHandles(LevelsSorted[1])
    /\ CloseTransactions(LevelsSorted[1]) = {}
    /\ CloseTransactions(LevelsSorted[Len(LevelsSorted)]) # {}

\* ----------------------------------------------------------------- C40
\* the handle h names a position of the cache (not None, not a placeholder)
IsPositionId(h) == h \notin {None, MANUAL_OVERRIDE, DETECTED}

\* no two levels of gs record the same position id as the handle of the same
\* instrument
HandlesDistinct(gs) ==
    \A l1 \in LevelSet, l2 \in LevelSet :
        l1 # l2 =>
           /\ IsPositionId(gs[l1].paxg_pos_id) => gs[l1].paxg_pos_id # gs[l2].paxg_pos_id
           /\ IsPositionId(gs[l1].xaut_pos_id) => gs[l1].xaut_pos_id # gs[l2].xaut_pos_id

\* quantity * avg_px_open of a position cache.positions_open() shows at
\* startup: one level's notional, or what a position holding two or four
\* levels' quantity comes to
CachedNotionals == {BaseNotionalPerLevel, 2 * BaseNotionalPerLevel, 4 * BaseNotionalPerLevel}

\* C40: no two levels record the same position id as the handle of the same
\* instrument; after startup sync: whatever open positions the cache shows and
\* whatever their notionals, the levels the sync marks carry distinct ids.
C40_SyncHandlesDistinct ==
    ~positions_synced =>
        \A paxg_pos \in LastSeen(orders, "PAXG"), xaut_pos \in LastSeen(orders, "XAUT") :
            \A paxg_notional \in CachedNotionals, xaut_notional \in CachedNotionals :
                HandlesDistinct(
                    SyncExistingPositions(Snapshot(FALSE), initial_notional_override,
                        paxg_pos, IF paxg_pos = None THEN 0 ELSE paxg_notional,
                        xaut_pos, IF xaut_pos = None THEN 0 ELSE xaut_notional,
                        NoExposure, NoExposure).gs)

====
